---- MODULE Spec2Model ----
(***************************************************************************)
(* A model of odata-query: the lexer and parser of grammar.py, the AST of  *)
(* ast.py, the round-trip printer of roundtrip.py, the SQL visitors of     *)
(* sql/base.py, sql/athena.py and sql/sqlite.py, the transformers of       *)
(* visitor.py, rewrite.py and utils.py, and the Django visitor of          *)
(* django/django_q.py.                                                     *)
(*                                                                         *)
(* Texts are TLA+ strings; SubSeq(s, i, i) is the i-th character.  Python  *)
(* values that may be of several types (a str or None, a node or None) are *)
(* records with a tag, so that any two of them can be compared.            *)
(***************************************************************************)
EXTENDS Naturals, Integers, Sequences, FiniteSets, TLC

VARIABLES text, pc, lexed, tree, printed, tree2, dialect, sql,
          input, transformer, rewritten, strip_id, stripped, _depth, django_q

vars == <<text, pc, lexed, tree, printed, tree2, dialect, sql,
          input, transformer, rewritten, strip_id, stripped, _depth, django_q>>

(***************************************************************************)
(* Characters and strings                                                  *)
(***************************************************************************)
LowerAZ == "abcdefghijklmnopqrstuvwxyz"
UpperAZ == "ABCDEFGHIJKLMNOPQRSTUVWXYZ"
Digits09 == "0123456789"

CharsOf(s) == {SubSeq(s, k, k) : k \in 1..Len(s)}

Ch(s, i) == SubSeq(s, i, i)

\* str.lower() on one character
LowerCh(c) ==
    IF \E k \in 1..Len(UpperAZ) : Ch(UpperAZ, k) = c
    THEN Ch(LowerAZ, CHOOSE k \in 1..Len(UpperAZ) : Ch(UpperAZ, k) = c)
    ELSE c

\* str.upper() on one character
UpperCh(c) ==
    IF \E k \in 1..Len(LowerAZ) : Ch(LowerAZ, k) = c
    THEN Ch(UpperAZ, CHOOSE k \in 1..Len(LowerAZ) : Ch(LowerAZ, k) = c)
    ELSE c

RECURSIVE lower(_)
lower(s) == IF s = "" THEN "" ELSE LowerCh(Ch(s, 1)) \o lower(Tail(s))

RECURSIVE upper(_)
upper(s) == IF s = "" THEN "" ELSE UpperCh(Ch(s, 1)) \o upper(Tail(s))

\* s[a:b] of Python for 0 <= a, with b counted from the start
Slice(s, a, b) == SubSeq(s, a + 1, b)

StartsWith(s, p) == Len(p) <= Len(s) /\ SubSeq(s, 1, Len(p)) = p

\* str.replace(old, new): left to right, non-overlapping
RECURSIVE replace(_, _, _)
replace(s, old, new) ==
    IF s = "" THEN ""
    ELSE IF StartsWith(s, old)
         THEN new \o replace(SubSeq(s, Len(old) + 1, Len(s)), old, new)
         ELSE Ch(s, 1) \o replace(Tail(s), old, new)

\* sep.join(parts)
RECURSIVE join(_, _)
join(sep, parts) ==
    IF parts = <<>> THEN ""
    ELSE IF Len(parts) = 1 THEN parts[1]
    ELSE parts[1] \o sep \o join(sep, Tail(parts))

(***************************************************************************)
(* Regular expressions, matched as Python's re does: a backtracking search *)
(* that takes the first match in priority order (an earlier alternative    *)
(* first, a greedy repetition longest first).  Ends(re, s, i) is the list  *)
(* of positions after a match of re that starts at position i of s, in     *)
(* that order; its head is the match re.match reports.                     *)
(***************************************************************************)
Cls(S) == [t |-> "cls", s |-> S]
NotCls(S) == [t |-> "ncls", s |-> S]
Lit(str) == [t |-> "lit", s |-> str]
Cat(rs) == [t |-> "cat", rs |-> rs]
Alt(rs) == [t |-> "alt", rs |-> rs]
Rep(r, lo, hi) == [t |-> "rep", r |-> r, lo |-> lo, hi |-> hi, inf |-> FALSE]
Plus(r) == [t |-> "rep", r |-> r, lo |-> 1, hi |-> 0, inf |-> TRUE]
Star(r) == [t |-> "rep", r |-> r, lo |-> 0, hi |-> 0, inf |-> TRUE]
Opt(r) == [t |-> "rep", r |-> r, lo |-> 0, hi |-> 1, inf |-> FALSE]

\* The inline (?i) of a token rule: sly joins the rules into one master
\* expression, and Python's re applies an inline global flag to the whole
\* expression, so every rule matches without regard to case.
IGNORECASE == TRUE

Fold(s) == IF IGNORECASE THEN lower(s) ELSE s

ClsHas(S, c) == c \in S \/ (IGNORECASE /\ (LowerCh(c) \in S \/ UpperCh(c) \in S))

RECURSIVE Ends(_, _, _)
RECURSIVE CatEnds(_, _, _, _)
RECURSIVE CatRest(_, _, _, _)
RECURSIVE AltEnds(_, _, _, _)
RECURSIVE RepEnds(_, _, _, _)
RECURSIVE RepRest(_, _, _, _, _)

Ends(re, s, i) ==
    CASE re.t = "cls" ->
            IF i <= Len(s) /\ ClsHas(re.s, Ch(s, i)) THEN <<i + 1>> ELSE <<>>
      [] re.t = "ncls" ->
            IF i <= Len(s) /\ ~ClsHas(re.s, Ch(s, i)) THEN <<i + 1>> ELSE <<>>
      [] re.t = "lit" ->
            IF i + Len(re.s) - 1 <= Len(s)
               /\ Fold(SubSeq(s, i, i + Len(re.s) - 1)) = Fold(re.s)
            THEN <<i + Len(re.s)>> ELSE <<>>
      [] re.t = "cat" -> CatEnds(re.rs, 1, s, i)
      [] re.t = "alt" -> AltEnds(re.rs, 1, s, i)
      [] re.t = "rep" -> RepEnds(re, s, i, 0)

CatEnds(rs, k, s, i) ==
    IF k > Len(rs) THEN <<i>> ELSE CatRest(Ends(rs[k], s, i), rs, k, s)

CatRest(es, rs, k, s) ==
    IF es = <<>> THEN <<>>
    ELSE CatEnds(rs, k + 1, s, Head(es)) \o CatRest(Tail(es), rs, k, s)

AltEnds(rs, k, s, i) ==
    IF k > Len(rs) THEN <<>> ELSE Ends(rs[k], s, i) \o AltEnds(rs, k + 1, s, i)

RepEnds(re, s, i, n) ==
    (IF re.inf \/ n < re.hi
     THEN RepRest(Ends(re.r, s, i), re, s, i, n)
     ELSE <<>>)
    \o (IF n >= re.lo THEN <<i>> ELSE <<>>)

RepRest(es, re, s, i, n) ==
    IF es = <<>> THEN <<>>
    ELSE (IF Head(es) > i THEN RepEnds(re, s, Head(es), n + 1) ELSE <<>>)
         \o RepRest(Tail(es), re, s, i, n)

(***************************************************************************)
(* The AST (ast.py).  A node is a record with its class name in kind.      *)
(***************************************************************************)
None == [kind |-> "None"]

\* A Python str held in a field that the code also fills with a node
PyStr(s) == [kind |-> "str", s |-> s]

Identifier(name) == [kind |-> "Identifier", name |-> name, namespace |-> <<>>]
Attribute(owner, attr) == [kind |-> "Attribute", owner |-> owner, attr |-> attr]
Null == [kind |-> "Null"]
Literal(kind, val) == [kind |-> kind, val |-> val]
List(val) == [kind |-> "List", val |-> val]
OpNode(kind) == [kind |-> kind]
BinOp(op, left, right) ==
    [kind |-> "BinOp", op |-> op, left |-> left, right |-> right]
Compare(comparator, left, right) ==
    [kind |-> "Compare", comparator |-> comparator, left |-> left, right |-> right]
BoolOp(op, left, right) ==
    [kind |-> "BoolOp", op |-> op, left |-> left, right |-> right]
UnaryOp(op, operand) == [kind |-> "UnaryOp", op |-> op, operand |-> operand]
Call(func, args) == [kind |-> "Call", func |-> func, args |-> args]
Lambda(identifier, expression) ==
    [kind |-> "Lambda", identifier |-> identifier, expression |-> expression]
CollectionLambda(owner, operator, lambda_) ==
    [kind |-> "CollectionLambda", owner |-> owner, operator |-> operator,
     lambda_ |-> lambda_]

\* The subclasses of ast._Literal
LiteralKinds ==
    {"Null", "Integer", "Float", "Boolean", "String", "Geography", "Date",
     "Time", "DateTime", "Duration", "GUID", "List"}

(***************************************************************************)
(* Exceptions (exceptions.py) and the built-in ones the code can raise     *)
(***************************************************************************)
TokenizingException(token) == [type |-> "TokenizingException", token |-> token]
ParsingException(token, eof) ==
    [type |-> "ParsingException", token |-> token, eof |-> eof]
UnknownFunctionException(function_name) ==
    [type |-> "UnknownFunctionException", function_name |-> function_name]
ArgumentCountException(function_name, exp_min_args, exp_max_args, given_args) ==
    [type |-> "ArgumentCountException", function_name |-> function_name,
     exp_min_args |-> exp_min_args, exp_max_args |-> exp_max_args,
     n_args_given |-> given_args]
UnsupportedFunctionException(function_name) ==
    [type |-> "UnsupportedFunctionException", function_name |-> function_name]
ArgumentTypeException(function_name) ==
    [type |-> "ArgumentTypeException", function_name |-> function_name]
BuiltinException(type, what) == [type |-> type, what |-> what]

\* The classes that derive from ODataException
ODataExceptionTypes ==
    {"ODataException", "ODataSyntaxError", "TokenizingException",
     "ParsingException", "FunctionCallException", "UnknownFunctionException",
     "ArgumentCountException", "UnsupportedFunctionException",
     "ArgumentTypeException", "TypeException", "ValueException",
     "InvalidFieldException"}

(***************************************************************************)
(* The lexer (grammar.py, ODataLexer)                                      *)
(***************************************************************************)
Digit == Cls(CharsOf(Digits09))
HexDigit == Cls(CharsOf(Digits09) \cup CharsOf("abcdef"))
WordChar == Cls(CharsOf(LowerAZ) \cup CharsOf(UpperAZ) \cup CharsOf(Digits09) \cup {"_"})
Whitespace == Cls({" ", "\t", "\n", "\r", "\f"})

_RWS == Plus(Whitespace)
_INTEGER == Cat(<<Opt(Cls({"+", "-"})), Plus(Digit)>>)
_DATE ==
    Cat(<<Cls(CharsOf("123456789")), Rep(Digit, 3, 3), Lit("-"),
          Alt(<<Cat(<<Lit("0"), Digit>>), Cat(<<Lit("1"), Cls(CharsOf("012"))>>)>>),
          Lit("-"),
          Alt(<<Cat(<<Cls(CharsOf("012")), Digit>>),
                Cat(<<Lit("3"), Cls(CharsOf("01"))>>)>>)>>)
_TIME_hm ==
    Cat(<<Alt(<<Cat(<<Cls(CharsOf("01")), Digit>>),
                Cat(<<Lit("2"), Cls(CharsOf("0123"))>>)>>),
          Lit(":"), Cls(CharsOf("012345")), Digit>>)
_TIME_s ==
    Cat(<<Opt(Lit(":")), Lit(":"), Cls(CharsOf("012345")), Digit,
          Opt(Cat(<<Lit("."), Rep(Digit, 1, 12)>>))>>)
_TIME == Cat(<<_TIME_hm, _TIME_s>>)

t_DURATION ==
    Cat(<<Lit("duration'"), Opt(Cls({"+", "-"})), Lit("P"),
          Opt(Cat(<<Plus(Digit), Lit("D")>>)),
          Opt(Cat(<<Lit("T"),
                    Opt(Cat(<<Plus(Digit), Lit("H")>>)),
                    Opt(Cat(<<Plus(Digit), Lit("M")>>)),
                    Opt(Cat(<<Plus(Digit), Opt(Cat(<<Lit("."), Plus(Digit)>>)),
                              Lit("S")>>))>>)),
          Lit("'")>>)
t_STRING == Cat(<<Lit("'"), Star(Alt(<<NotCls({"'"}), Lit("''")>>)), Lit("'")>>)
t_GUID ==
    Cat(<<Rep(HexDigit, 8, 8), Lit("-"), Rep(HexDigit, 4, 4), Lit("-"),
          Rep(HexDigit, 4, 4), Lit("-"), Rep(HexDigit, 4, 4), Lit("-"),
          Rep(HexDigit, 12, 12)>>)
t_DATETIME ==
    Cat(<<_DATE, Lit("T"), _TIME_hm, Opt(_TIME_s),
          Opt(Alt(<<Lit("Z"),
                    Cat(<<Cls({"+", "-"}),
                          Alt(<<Cat(<<Cls(CharsOf("01")), Digit>>),
                                Cat(<<Lit("2"), Cls(CharsOf("0123"))>>)>>),
                          Lit(":"), Cls(CharsOf("012345")), Digit>>)>>))>>)
t_DECIMAL ==
    Cat(<<_INTEGER,
          Alt(<<Cat(<<Lit("."), Plus(Digit), Lit("e"), Opt(Cls({"-", "+"})), Plus(Digit)>>),
                Cat(<<Lit("."), Plus(Digit)>>),
                Cat(<<Lit("e"), Opt(Cls({"-", "+"})), Plus(Digit)>>)>>)>>)
t_BOOLEAN == Alt(<<Lit("true"), Lit("false")>>)
\* A keyword matched by its letters alone
KeywordOp_bare(word) == Lit(word)

KeywordOp(word) == Cat(<<_RWS, Lit(word), _RWS>>)
t_NOT == Cat(<<Lit("not"), _RWS>>)
t_ODATA_IDENTIFIER ==
    Cat(<<Cls(CharsOf(LowerAZ) \cup {"_"}), Rep(WordChar, 0, 127)>>)

\* The token rules in the order of their definition, which is the order of
\* the alternatives of the master expression
LexRules ==
    << [type |-> "DURATION", re |-> t_DURATION],
       [type |-> "STRING", re |-> t_STRING],
       [type |-> "GUID", re |-> t_GUID],
       [type |-> "DATETIME", re |-> t_DATETIME],
       [type |-> "DATE", re |-> _DATE],
       [type |-> "TIME", re |-> _TIME],
       [type |-> "DECIMAL", re |-> t_DECIMAL],
       [type |-> "INTEGER", re |-> _INTEGER],
       [type |-> "BOOLEAN", re |-> t_BOOLEAN],
       [type |-> "NULL", re |-> Lit("null")],
       [type |-> "ADD", re |-> KeywordOp("add")],
       [type |-> "SUB", re |-> KeywordOp("sub")],
       [type |-> "MUL", re |-> KeywordOp("mul")],
       [type |-> "DIV", re |-> KeywordOp("div")],
       [type |-> "MOD", re |-> KeywordOp("mod")],
       [type |-> "UMINUS", re |-> Lit("-")],
       [type |-> "AND", re |-> KeywordOp("and")],
       [type |-> "OR", re |-> KeywordOp("or")],
       [type |-> "NOT", re |-> t_NOT],
       [type |-> "EQ", re |-> KeywordOp("eq")],
       [type |-> "NE", re |-> KeywordOp("ne")],
       [type |-> "LT", re |-> KeywordOp("lt")],
       [type |-> "LE", re |-> KeywordOp("le")],
       [type |-> "GT", re |-> KeywordOp("gt")],
       [type |-> "GE", re |-> KeywordOp("ge")],
       [type |-> "IN", re |-> KeywordOp("in")],
       [type |-> "ANY", re |-> Lit("any")],
       [type |-> "ALL", re |-> Lit("all")],
       [type |-> "ODATA_IDENTIFIER", re |-> t_ODATA_IDENTIFIER],
       [type |-> "WS", re |-> _RWS] >>

literals == {"(", ")", ",", "/", ":"}

\* The ast operator node a keyword token carries
OpOfToken(type) ==
    CASE type = "ADD" -> "Add" [] type = "SUB" -> "Sub" [] type = "MUL" -> "Mult"
      [] type = "DIV" -> "Div" [] type = "MOD" -> "Mod" [] type = "UMINUS" -> "USub"
      [] type = "AND" -> "And" [] type = "OR" -> "Or" [] type = "NOT" -> "Not"
      [] type = "EQ" -> "Eq" [] type = "NE" -> "NotEq" [] type = "LT" -> "Lt"
      [] type = "LE" -> "LtE" [] type = "GT" -> "Gt" [] type = "GE" -> "GtE"
      [] type = "IN" -> "In" [] type = "ANY" -> "Any" [] type = "ALL" -> "All"

\* t.value as the rule's method sets it
TokenValue(type, lexeme) ==
    CASE type = "DURATION" ->
            Literal("Duration",
                    Slice(upper(lexeme), Len("DURATION") + 1, Len(lexeme) - 1))
      [] type = "STRING" ->
            Literal("String", replace(Slice(lexeme, 1, Len(lexeme) - 1), "''", "'"))
      [] type = "GUID" -> Literal("GUID", lexeme)
      [] type = "DATETIME" -> Literal("DateTime", lexeme)
      [] type = "DATE" -> Literal("Date", lexeme)
      [] type = "TIME" -> Literal("Time", lexeme)
      [] type = "DECIMAL" -> Literal("Float", lexeme)
      [] type = "INTEGER" -> Literal("Integer", lexeme)
      [] type = "BOOLEAN" -> Literal("Boolean", lexeme)
      [] type = "NULL" -> Null
      [] type = "ODATA_IDENTIFIER" -> Identifier(lexeme)
      [] type = "WS" -> PyStr(lexeme)
      [] OTHER -> OpNode(OpOfToken(type))

Token(type, value) == [type |-> type, value |-> value]

\* ODataLexer.error: the name it raises with is bound nowhere in the
\* module, so the raise statement fails before the exception is built
LexerError(s, i) ==
    BuiltinException("NameError", "name 'text' is not defined")

\* The first rule, in order, that matches at position i: <<k, end>>, or
\* <<0, i>> when none does
RECURSIVE MatchRule(_, _, _)
MatchRule(s, i, k) ==
    IF k > Len(LexRules) THEN <<0, i>>
    ELSE LET es == Ends(LexRules[k].re, s, i)
         IN IF es # <<>> THEN <<k, Head(es)>> ELSE MatchRule(s, i, k + 1)

\* list(lexer.tokenize(s)): the tokens up to the end of the text or to the
\* first failure, and the exception raised there (None when there is none)
RECURSIVE Scan(_, _, _)
Scan(s, i, toks) ==
    IF i > Len(s) THEN [toks |-> toks, err |-> None]
    ELSE LET m == MatchRule(s, i, 1)
         IN IF m[1] # 0
            THEN Scan(s, m[2],
                      Append(toks, Token(LexRules[m[1]].type,
                                         TokenValue(LexRules[m[1]].type,
                                                    SubSeq(s, i, m[2] - 1)))))
            ELSE IF Ch(s, i) \in literals
            THEN Scan(s, i + 1, Append(toks, Token(Ch(s, i), PyStr(Ch(s, i)))))
            ELSE [toks |-> toks, err |-> LexerError(s, i)]

tokenize(s) == Scan(s, 1, <<>>)

(***************************************************************************)
(* The parser (grammar.py, ODataParser).  sly builds an LALR(1) parser     *)
(* from the rules and settles every shift/reduce conflict between a rule   *)
(* "... op1 common_expr ." and a lookahead operator op2 with the table     *)
(* precedence: shift when op2 is on a higher level, or on the same level   *)
(* and that level is right-associative; reduce otherwise.  The operators   *)
(* below are named after the grammar rules and apply their actions; a run  *)
(* of operators is parsed with that shift/reduce decision.                 *)
(***************************************************************************)
ODATA_FUNCTIONS ==
    [name \in {"concat", "contains", "endswith", "indexof", "startswith",
               "matchesPattern", "geo.intersects", "hassubset",
               "hassubsequence"} |-> [int |-> TRUE, n |-> 2, min |-> 2, max |-> 2]]
    @@ [name \in {"length", "tolower", "toupper", "trim", "year", "month", "day",
                  "hour", "minute", "second", "fractionalseconds",
                  "totalseconds", "date", "time", "totaloffsetminutes", "round",
                  "floor", "ceiling", "geo.distance", "geo.length"}
            |-> [int |-> TRUE, n |-> 1, min |-> 1, max |-> 1]]
    @@ [name \in {"mindatetime", "maxdatetime", "now"}
            |-> [int |-> TRUE, n |-> 0, min |-> 0, max |-> 0]]
    @@ [name \in {"substring"} |-> [int |-> FALSE, n |-> 0, min |-> 2, max |-> 3]]

\* Precedence from low to high
precedence ==
    << [assoc |-> "left", tokens |-> {"OR"}],
       [assoc |-> "left", tokens |-> {"AND"}],
       [assoc |-> "left", tokens |-> {"EQ", "NE"}],
       [assoc |-> "left", tokens |-> {"GT", "GE", "LT", "LE"}],
       [assoc |-> "left", tokens |-> {"ADD", "SUB"}],
       [assoc |-> "left", tokens |-> {"MUL", "DIV", "MOD"}],
       [assoc |-> "right", tokens |-> {"NOT", "UMINUS"}],
       [assoc |-> "left", tokens |-> {"IN"}] >>

Level(type) == CHOOSE l \in 1..Len(precedence) : type \in precedence[l].tokens

\* Every level taken as right-associative
ShiftFrom_right(type) == Level(type)

\* The lowest level of a lookahead operator that is shifted, not reduced,
\* after "... type common_expr ."
ShiftFrom(type) ==
    IF precedence[Level(type)].assoc = "right" THEN Level(type) ELSE Level(type) + 1

ArithTokens == {"ADD", "SUB", "MUL", "DIV", "MOD"}
CompareTokens == {"EQ", "NE", "LT", "LE", "GT", "GE"}
BoolTokens == {"AND", "OR"}
BinaryTokens == ArithTokens \cup CompareTokens \cup BoolTokens \cup {"IN"}
PrimitiveTokens ==
    {"NULL", "INTEGER", "DECIMAL", "STRING", "BOOLEAN", "GUID", "DATE", "TIME",
     "DATETIME", "DURATION"}

\* The token stream the parser pulls from the lexer: the tokens, then the
\* lexer's failure or the end of input
Peek(s, i) ==
    IF i <= Len(s.toks) THEN s.toks[i]
    ELSE IF s.err # None THEN Token("$error", None)
    ELSE Token("$end", None)

Ok(node, pos) == [ok |-> TRUE, node |-> node, pos |-> pos, isList |-> FALSE]
OkList(node, pos) == [ok |-> TRUE, node |-> node, pos |-> pos, isList |-> TRUE]
Raise(exc) == [ok |-> FALSE, exc |-> exc]

\* The rest of a rule or method, K, runs on the result r of a call unless
\* the call raised: an exception passes through the callers
Then(r, K(_)) == IF r.ok THEN K(r) ELSE r

\* K runs on the value v
With(v, K(_)) == K(v)

\* ODataParser.error at token i; pulling a token the lexer cannot produce
\* raises the lexer's exception instead
error(s, i) ==
    IF i <= Len(s.toks) THEN Raise(ParsingException(s.toks[i], FALSE))
    ELSE IF s.err # None THEN Raise(s.err)
    ELSE Raise(ParsingException(None, TRUE))

BWS(s, i) == IF Peek(s, i).type = "WS" THEN i + 1 ELSE i

\* A call built without looking at the number of arguments
_function_call_any_count(func, args) ==
    IF func.name \notin DOMAIN ODATA_FUNCTIONS
    THEN Raise(UnknownFunctionException(func.name))
    ELSE [ok |-> TRUE, node |-> Call(func, args)]

_function_call(func, args) ==
    IF func.name \notin DOMAIN ODATA_FUNCTIONS
    THEN Raise(UnknownFunctionException(func.name))
    ELSE LET n_args_exp == ODATA_FUNCTIONS[func.name]
             n_args_given == Len(args)
         IN IF n_args_exp.int /\ n_args_given # n_args_exp.n
            THEN Raise(ArgumentCountException(func.name, n_args_exp.n,
                                              n_args_exp.n, n_args_given))
            ELSE IF ~n_args_exp.int
                    /\ (n_args_given < n_args_exp.min \/ n_args_given > n_args_exp.max)
            THEN Raise(ArgumentCountException(func.name, n_args_exp.min,
                                              n_args_exp.max, n_args_given))
            ELSE [ok |-> TRUE, node |-> Call(func, args)]

RECURSIVE _explode_attr(_)
_explode_attr(attr) ==
    Then(IF attr.owner.kind = "Identifier" THEN Ok(<<attr.owner.name>>, 0)
         ELSE IF attr.owner.kind = "Attribute" THEN _explode_attr(attr.owner)
         ELSE Raise(BuiltinException("NotImplementedError", "")),
         LAMBDA owner :
            IF attr.attr.kind = "str" THEN Ok(Append(owner.node, attr.attr.s), 0)
            ELSE IF attr.attr.kind = "Attribute"
            THEN Then(_explode_attr(attr.attr),
                      LAMBDA rest : Ok(owner.node \o rest.node, 0))
            ELSE Raise(BuiltinException("NotImplementedError", "")))

RECURSIVE NestAttributes(_, _)
NestAttributes(owner, names) ==
    IF names = <<>> THEN owner
    ELSE NestAttributes(Attribute(owner, PyStr(Head(names))), Tail(names))

_reverse_attributes(attr) ==
    Then(_explode_attr(attr), LAMBDA exploded :
        LET leaf_attr == exploded.node[Len(exploded.node)]
            owner == NestAttributes(Identifier(exploded.node[1]),
                                    SubSeq(exploded.node, 2, Len(exploded.node) - 1))
        IN [ok |-> TRUE, node |-> Attribute(owner, PyStr(leaf_attr))])

\* The path kept as the grammar nests it, to the right
single_navigation_unreversed(p0, p1) ==
    IF p1.kind = "Attribute" THEN [ok |-> TRUE, node |-> Attribute(p0, p1)]
    ELSE IF p1.kind = "CollectionLambda"
    THEN IF p1.owner.kind = "Identifier"
         THEN [ok |-> TRUE,
               node |-> CollectionLambda(Attribute(p0, PyStr(p1.owner.name)),
                                         p1.operator, p1.lambda_)]
         ELSE Raise(BuiltinException("AttributeError",
                                     "'Attribute' object has no attribute 'name'"))
    ELSE [ok |-> TRUE, node |-> Attribute(p0, PyStr(p1.name))]

\* The action of "entity_navigation_property single_navigation_expr"
single_navigation(p0, p1) ==
    IF p1.kind = "Attribute"
    THEN _reverse_attributes(Attribute(p0, p1))
    ELSE IF p1.kind = "CollectionLambda"
    THEN IF p1.owner.kind = "Identifier"
         THEN [ok |-> TRUE,
               node |-> CollectionLambda(Attribute(p0, PyStr(p1.owner.name)),
                                         p1.operator, p1.lambda_)]
         ELSE Raise(BuiltinException("AttributeError",
                                     "'Attribute' object has no attribute 'name'"))
    ELSE [ok |-> TRUE, node |-> Attribute(p0, PyStr(p1.name))]

\* The node a binary rule builds
BinaryNode(tok, left, right) ==
    IF tok.type \in ArithTokens THEN BinOp(tok.value, left, right)
    ELSE IF tok.type \in BoolTokens THEN BoolOp(tok.value, left, right)
    ELSE Compare(tok.value, left, right)

RECURSIVE common_expr(_, _, _)
RECURSIVE operand_expr(_, _)
RECURSIVE binary_expr(_, _, _, _)
RECURSIVE list_expr(_, _, _)
RECURSIVE list_items(_, _, _)
RECURSIVE call_expr(_, _)
RECURSIVE property_path_expr(_, _)
RECURSIVE collection_path_expr(_, _, _)
RECURSIVE lambda_(_, _)

\* A common_expr that starts at token i and extends over every following
\* operator of level minLevel or higher
common_expr(s, i, minLevel) ==
    Then(operand_expr(s, i), LAMBDA l : binary_expr(s, l.node, l.pos, minLevel))

\* The rules of common_expr that do not start with a common_expr
operand_expr(s, i) ==
    LET t == Peek(s, i)
    IN CASE t.type \in PrimitiveTokens -> Ok(t.value, i + 1)
         [] t.type = "(" -> Then(list_expr(s, i, TRUE), LAMBDA r : Ok(r.node, r.pos))
         [] t.type = "ODATA_IDENTIFIER" ->
                IF Peek(s, i + 1).type = "(" THEN call_expr(s, i)
                ELSE property_path_expr(s, i)
         [] t.type = "UMINUS" ->
                Then(common_expr(s, BWS(s, i + 1), ShiftFrom("UMINUS")),
                     LAMBDA r : Ok(UnaryOp(t.value, r.node), r.pos))
         [] t.type = "NOT" ->
                Then(common_expr(s, i + 1, ShiftFrom("NOT")),
                     LAMBDA r : Ok(UnaryOp(t.value, r.node), r.pos))
         [] OTHER -> error(s, i)

\* "common_expr OP common_expr" and "common_expr IN list_expr" with the
\* left operand parsed and the lookahead at token i
binary_expr(s, left, i, minLevel) ==
    LET t == Peek(s, i)
    IN IF t.type \in BinaryTokens /\ Level(t.type) >= minLevel
       THEN IF t.type = "IN"
            THEN IF Peek(s, i + 1).type # "(" THEN error(s, i + 1)
                 ELSE Then(list_expr(s, i + 1, FALSE),
                           LAMBDA r : binary_expr(s, Compare(t.value, left, r.node),
                                                  r.pos, minLevel))
            ELSE Then(common_expr(s, i + 1, ShiftFrom(t.type)),
                      LAMBDA r : binary_expr(s, BinaryNode(t, left, r.node),
                                             r.pos, minLevel))
       ELSE Ok(left, i)

\* A list built from every parenthesized expression, the single one too
list_expr_no_scalar(s, i, scalar) ==
    Then(common_expr(s, BWS(s, i + 1), 1), LAMBDA first :
        IF Peek(s, BWS(s, first.pos)).type = ")"
        THEN OkList(List(<<first.node>>), BWS(s, first.pos) + 1)
        ELSE IF Peek(s, BWS(s, first.pos)).type = ","
        THEN list_items(s, <<first.node>>, first.pos)
        ELSE error(s, BWS(s, first.pos)))

\* "(" at token i: '"(" BWS common_expr BWS ")"' where a common_expr may
\* stand (scalar), '"(" BWS common_expr BWS "," BWS ")"' and
\* '"(" BWS list_items BWS ")"'
list_expr(s, i, scalar) ==
    Then(common_expr(s, BWS(s, i + 1), 1), LAMBDA first :
        LET k == BWS(s, first.pos)
            k2 == BWS(s, k + 1)
        IN IF Peek(s, k).type = ")" /\ scalar THEN Ok(first.node, k + 1)
           ELSE IF Peek(s, k).type = ","
           THEN IF Peek(s, k2).type = ")"
                THEN OkList(List(<<first.node>>), k2 + 1)
                ELSE Then(common_expr(s, k2, 1),
                          LAMBDA second : list_items(s, <<first.node, second.node>>,
                                                     second.pos))
           ELSE error(s, k))

list_items(s, items, i) ==
    LET k == BWS(s, i)
    IN IF Peek(s, k).type = ")" THEN OkList(List(items), k + 1)
       ELSE IF Peek(s, k).type = ","
       THEN Then(common_expr(s, BWS(s, k + 1), 1),
                 LAMBDA next : list_items(s, Append(items, next.node), next.pos))
       ELSE error(s, k)

\* 'ODATA_IDENTIFIER "(" ")"', 'ODATA_IDENTIFIER "(" BWS common_expr BWS ")"'
\* and "ODATA_IDENTIFIER list_expr", with the identifier at token i
call_expr(s, i) ==
    IF Peek(s, i + 2).type = ")"
    THEN Then(_function_call(s.toks[i].value, <<>>), LAMBDA c : Ok(c.node, i + 3))
    ELSE Then(list_expr(s, i + 1, TRUE), LAMBDA r :
             Then(_function_call(s.toks[i].value,
                                 IF r.isList THEN r.node.val ELSE <<r.node>>),
                  LAMBDA c : Ok(c.node, r.pos)))

\* member_expr and property_path_expr, with the identifier of
\* entity_navigation_property at token i
property_path_expr(s, i) ==
    LET p0 == s.toks[i].value
    IN IF Peek(s, i + 1).type # "/" THEN Ok(p0, i + 1)
       ELSE IF Peek(s, i + 2).type \in {"ANY", "ALL"}
       THEN collection_path_expr(s, i + 2, p0)
       ELSE IF Peek(s, i + 2).type = "ODATA_IDENTIFIER"
       THEN Then(property_path_expr(s, i + 2), LAMBDA p1 :
                Then(single_navigation(p0, p1.node), LAMBDA r : Ok(r.node, p1.pos)))
       ELSE error(s, i + 2)

\* any_expr and all_expr with ANY or ALL at token i, and the action of
\* "entity_navigation_property collection_path_expr"
collection_path_expr(s, i, p0) ==
    IF Peek(s, i + 1).type # "(" THEN error(s, i + 1)
    ELSE IF Peek(s, BWS(s, i + 2)).type = ")"
    THEN IF s.toks[i].type = "ANY"
         THEN Ok(CollectionLambda(p0, s.toks[i].value, None), BWS(s, i + 2) + 1)
         ELSE error(s, BWS(s, i + 2))
    ELSE Then(lambda_(s, BWS(s, i + 2)), LAMBDA l :
             IF Peek(s, BWS(s, l.pos)).type # ")" THEN error(s, BWS(s, l.pos))
             ELSE Ok(CollectionLambda(p0, s.toks[i].value, l.node), BWS(s, l.pos) + 1))

\* 'ODATA_IDENTIFIER BWS ":" BWS common_expr'
lambda_(s, i) ==
    IF Peek(s, i).type # "ODATA_IDENTIFIER" THEN error(s, i)
    ELSE IF Peek(s, BWS(s, i + 1)).type # ":" THEN error(s, BWS(s, i + 1))
    ELSE Then(common_expr(s, BWS(s, BWS(s, i + 1) + 1), 1),
              LAMBDA body : Ok(Lambda(s.toks[i].value, body.node), body.pos))

\* parser.parse(lexer.tokenize(s)): the tree, or the exception raised
parse(s) ==
    Then(common_expr(s, 1, 1), LAMBDA r :
        IF Peek(s, r.pos).type = "$end" THEN [ok |-> TRUE, node |-> r.node]
        ELSE error(s, r.pos))

(***************************************************************************)
(* The round-trip printer (roundtrip.py, AstToODataVisitor).               *)
(***************************************************************************)
\* What a visitor method returns
Return(val) == [ok |-> TRUE, val |-> val]

TypeError(what) == Raise(BuiltinException("TypeError", what))

\* PRECEDENCE.get(type, 100)
PRECEDENCE(type) ==
    CASE type \in {"Attribute", "Call"} -> 10
      [] type \in {"Not", "USub"} -> 9
      [] type \in {"Mult", "Div", "Mod"} -> 8
      [] type \in {"Add", "Sub"} -> 7
      [] type \in {"Gt", "GtE", "Lt", "LtE"} -> 6
      [] type \in {"Eq", "NotEq"} -> 5
      [] type = "And" -> 4
      [] type = "Or" -> 3
      [] OTHER -> 100

\* visit_Add .. visit_All
roundtrip_visit_op(op) ==
    CASE op.kind = "Add" -> "add" [] op.kind = "Sub" -> "sub" [] op.kind = "Mult" -> "mul"
      [] op.kind = "Div" -> "div" [] op.kind = "Mod" -> "mod" [] op.kind = "Eq" -> "eq"
      [] op.kind = "NotEq" -> "ne" [] op.kind = "Lt" -> "lt" [] op.kind = "LtE" -> "le"
      [] op.kind = "Gt" -> "gt" [] op.kind = "GtE" -> "ge" [] op.kind = "In" -> "in"
      [] op.kind = "And" -> "and" [] op.kind = "Or" -> "or" [] op.kind = "Not" -> "not"
      [] op.kind = "USub" -> "-" [] op.kind = "Any" -> "any" [] op.kind = "All" -> "all"

roundtrip_visit_String(node) == "'" \o node.val \o "'"

roundtrip_visit_Duration(node) == "duration'" \o node.val \o "'"

RECURSIVE AstToODataVisitor(_)
RECURSIVE roundtrip_visit_each(_)
RECURSIVE _visit_and_paren_if_precedence_lower(_, _)

\* [self.visit(v) for v in nodes]
roundtrip_visit_each(nodes) ==
    IF nodes = <<>> THEN Return(<<>>)
    ELSE LET h == AstToODataVisitor(Head(nodes))
         IN IF ~h.ok THEN h
            ELSE LET t == roundtrip_visit_each(Tail(nodes))
                 IN IF ~t.ok THEN t ELSE Return(<<h.val>> \o t.val)

roundtrip_visit_List(node) ==
    LET vs == roundtrip_visit_each(node.val)
    IN IF ~vs.ok THEN vs ELSE Return("(" \o join(", ", vs.val) \o ")")

\* visit_BinOp, visit_Compare and visit_BoolOp, of the operator node op
roundtrip_visit_binary(node, op) ==
    LET left == _visit_and_paren_if_precedence_lower(node.left, op.kind)
    IN IF ~left.ok THEN left
       ELSE LET right == _visit_and_paren_if_precedence_lower(node.right, op.kind)
            IN IF ~right.ok THEN right
               ELSE Return(left.val \o " " \o roundtrip_visit_op(op) \o " " \o right.val)

roundtrip_visit_UnaryOp(node) ==
    LET operand == _visit_and_paren_if_precedence_lower(node.operand, node.op.kind)
    IN IF ~operand.ok THEN operand
       ELSE Return(roundtrip_visit_op(node.op) \o " " \o operand.val)

roundtrip_visit_Call(node) ==
    LET func == AstToODataVisitor(node.func)
        args == roundtrip_visit_each(node.args)
    IN IF ~func.ok THEN func
       ELSE IF ~args.ok THEN args
       ELSE Return(func.val \o "(" \o join(", ", args.val) \o ")")

roundtrip_visit_Attribute(node) ==
    LET owner == AstToODataVisitor(node.owner)
    IN IF ~owner.ok THEN owner
       ELSE IF node.attr.kind # "str"
       THEN TypeError("can only concatenate str to str")
       ELSE Return(owner.val \o "/" \o node.attr.s)

roundtrip_visit_Lambda(node) ==
    LET identifier == AstToODataVisitor(node.identifier)
        expression == AstToODataVisitor(node.expression)
    IN IF ~identifier.ok THEN identifier
       ELSE IF ~expression.ok THEN expression
       ELSE Return(identifier.val \o ": " \o expression.val)

roundtrip_visit_CollectionLambda(node) ==
    LET owner == AstToODataVisitor(node.owner)
        lambda == IF node.lambda_ # None THEN AstToODataVisitor(node.lambda_)
                  ELSE Return("")
    IN IF ~owner.ok THEN owner
       ELSE IF ~lambda.ok THEN lambda
       ELSE Return(owner.val \o "/" \o roundtrip_visit_op(node.operator) \o "("
                   \o lambda.val \o ")")

\* AstToODataVisitor().visit(node)
AstToODataVisitor(node) ==
    CASE node.kind = "Identifier" ->
            Return(IF node.namespace # <<>>
                   THEN join(".", node.namespace) \o "." \o node.name
                   ELSE node.name)
      [] node.kind = "Attribute" -> roundtrip_visit_Attribute(node)
      [] node.kind = "Null" -> Return("null")
      [] node.kind = "String" -> Return(roundtrip_visit_String(node))
      [] node.kind = "Duration" -> Return(roundtrip_visit_Duration(node))
      [] node.kind \in {"Integer", "Float", "Boolean", "Date", "Time", "DateTime",
                        "GUID"} -> Return(node.val)
      [] node.kind = "List" -> roundtrip_visit_List(node)
      [] node.kind \in {"BinOp", "BoolOp"} -> roundtrip_visit_binary(node, node.op)
      [] node.kind = "Compare" -> roundtrip_visit_binary(node, node.comparator)
      [] node.kind = "UnaryOp" -> roundtrip_visit_UnaryOp(node)
      [] node.kind = "Call" -> roundtrip_visit_Call(node)
      [] node.kind = "Lambda" -> roundtrip_visit_Lambda(node)
      [] node.kind = "CollectionLambda" -> roundtrip_visit_CollectionLambda(node)
      [] OTHER -> Return(roundtrip_visit_op(node))

_visit_and_paren_if_precedence_lower(node, precedence_) ==
    LET res == AstToODataVisitor(node)
        node_op == IF node.kind \in {"BinOp", "BoolOp", "UnaryOp"} THEN node.op.kind
                   ELSE IF node.kind = "Compare" THEN node.comparator.kind
                   ELSE node.kind
        node_prec == PRECEDENCE(node_op)
        check_prec == PRECEDENCE(precedence_)
    IN IF ~res.ok THEN res
       ELSE IF node_prec < check_prec THEN Return("(" \o res.val \o ")")
       ELSE res

(***************************************************************************)
(* Type inference (typing.py)                                              *)
(***************************************************************************)
RECURSIVE infer_type(_)
infer_return_type(node) ==
    LET func == node.func.name
    IN CASE func \in {"contains", "endswith", "startswith", "hassubset",
                      "hassubsequence", "geo.intersects"} -> "Boolean"
         [] func \in {"indexof", "length", "year", "month", "day", "hour", "minute",
                      "second", "totaloffsetminutes"} -> "Integer"
         [] func \in {"fractionalseconds", "totalseconds", "ceiling", "floor",
                      "round", "geo.distance", "geo.length"} -> "Float"
         [] func \in {"tolower", "toupper", "trim"} -> "String"
         [] func = "date" -> "Date"
         [] func \in {"maxdatetime", "mindatetime", "now"} -> "DateTime"
         [] func = "concat" ->
                IF infer_type(node.args[1]) # "None" THEN infer_type(node.args[1])
                ELSE infer_type(node.args[2])
         [] func = "substring" -> infer_type(node.args[1])
         [] OTHER -> "None"

\* The inferred class, by name; "None" when nothing is inferred
infer_type(node) ==
    IF node.kind \in LiteralKinds THEN node.kind
    ELSE IF node.kind \in {"Compare", "BoolOp"} THEN "Boolean"
    ELSE IF node.kind = "Call" THEN infer_return_type(node)
    ELSE "None"

(***************************************************************************)
(* Duration.unpack (ast.py)                                                *)
(***************************************************************************)
\* One optional group "\d+<unit>" (with a fraction for the seconds) of
\* DURATION_PATTERN at position i, es being the ends of its matches there:
\* the group's text without its unit, or None, and the position after it
DurationGroupAt(s, i, es) ==
    IF es = <<>> THEN [val |-> None, pos |-> i]
    ELSE [val |-> PyStr(SubSeq(s, i, es[1] - 2)), pos |-> es[1]]

DurationGroup(s, i, unit, fraction) ==
    DurationGroupAt(s, i,
        Ends(Cat(<<Plus(Digit),
                   IF fraction THEN Opt(Cat(<<Lit("."), Plus(Digit)>>)) ELSE Lit(""),
                   Lit(unit)>>), s, i))

\* The optional groups of DURATION_PATTERN for the units, matched in order
\* from position i: their texts without the unit (None for a group that
\* did not match) and the position after the last
RECURSIVE DurationGroups(_, _, _)
DurationGroupsAfter(s, g, units) ==
    [vals |-> <<g.val>> \o DurationGroups(s, g.pos, units).vals,
     pos |-> DurationGroups(s, g.pos, units).pos]

DurationGroups(s, i, units) ==
    IF units = <<>> THEN [vals |-> <<>>, pos |-> i]
    ELSE DurationGroupsAfter(s, DurationGroup(s, i, Head(units), Head(units) = "S"),
                             Tail(units))

\* The groups after "T", when date is the match of the groups before it
DurationTime(s, date) ==
    IF date.pos <= Len(s) /\ Ch(s, date.pos) = "T"
    THEN DurationGroups(s, date.pos + 1, <<"H", "M", "S">>)
    ELSE [vals |-> <<None, None, None>>, pos |-> date.pos]

\* match.groups() of DURATION_PATTERN.fullmatch, each without its unit
DurationMatch(s, p, sign, date, time) ==
    IF p > Len(s) \/ Ch(s, p) # "P" \/ time.pos # Len(s) + 1
    THEN Raise(BuiltinException("ValueError",
                                "Could not unpack Duration with value " \o s))
    ELSE Return(<<sign>> \o date.vals \o time.vals)

DurationFrom(s, p, sign, date) == DurationMatch(s, p, sign, date, DurationTime(s, date))

unpack(node) ==
    IF node.val # "" /\ Ch(node.val, 1) \in {"+", "-"}
    THEN DurationFrom(node.val, 2, PyStr(Ch(node.val, 1)),
                      DurationGroups(node.val, 3, <<"Y", "M", "D">>))
    ELSE DurationFrom(node.val, 1, None, DurationGroups(node.val, 2, <<"Y", "M", "D">>))

(***************************************************************************)
(* repr() of a node, as the dataclasses generate it                        *)
(***************************************************************************)
\* repr() of a str without backslashes or control characters
repr_str(s) ==
    IF "'" \in CharsOf(s) /\ "\"" \notin CharsOf(s) THEN "\"" \o s \o "\""
    ELSE "'" \o replace(s, "'", "\\'") \o "'"

RECURSIVE repr(_)
RECURSIVE repr_each(_)
repr_each(nodes) ==
    IF nodes = <<>> THEN <<>> ELSE <<repr(Head(nodes))>> \o repr_each(Tail(nodes))

repr(node) ==
    CASE node.kind = "None" -> "None"
      [] node.kind = "str" -> repr_str(node.s)
      [] node.kind = "Identifier" ->
            "Identifier(name=" \o repr_str(node.name) \o ", namespace=("
            \o join(", ", [k \in 1..Len(node.namespace) |-> repr_str(node.namespace[k])])
            \o (IF Len(node.namespace) = 1 THEN "," ELSE "") \o "))"
      [] node.kind = "Attribute" ->
            "Attribute(owner=" \o repr(node.owner) \o ", attr=" \o repr(node.attr) \o ")"
      [] node.kind = "List" -> "List(val=[" \o join(", ", repr_each(node.val)) \o "])"
      [] node.kind \in LiteralKinds \ {"Null", "List"} ->
            node.kind \o "(val=" \o repr_str(node.val) \o ")"
      [] node.kind \in {"BinOp", "BoolOp"} ->
            node.kind \o "(op=" \o repr(node.op) \o ", left=" \o repr(node.left)
            \o ", right=" \o repr(node.right) \o ")"
      [] node.kind = "Compare" ->
            "Compare(comparator=" \o repr(node.comparator) \o ", left="
            \o repr(node.left) \o ", right=" \o repr(node.right) \o ")"
      [] node.kind = "UnaryOp" ->
            "UnaryOp(op=" \o repr(node.op) \o ", operand=" \o repr(node.operand) \o ")"
      [] node.kind = "Call" ->
            "Call(func=" \o repr(node.func) \o ", args=["
            \o join(", ", repr_each(node.args)) \o "])"
      [] node.kind = "Lambda" ->
            "Lambda(identifier=" \o repr(node.identifier) \o ", expression="
            \o repr(node.expression) \o ")"
      [] node.kind = "CollectionLambda" ->
            "CollectionLambda(owner=" \o repr(node.owner) \o ", operator="
            \o repr(node.operator) \o ", lambda_=" \o repr(node.lambda_) \o ")"
      [] OTHER -> node.kind \o "()"

(***************************************************************************)
(* The SQL visitors: sql/base.py (AstToSqlVisitor), sql/athena.py          *)
(* (AstToAthenaSqlVisitor) and sql/sqlite.py (AstToSqliteSqlVisitor).      *)
(* The three classes repeat each other's methods; a method that is the     *)
(* same text in all three is one operator here, with the dialect d as a    *)
(* parameter where the classes differ.                                     *)
(***************************************************************************)
Dialects == {"base", "athena", "sqlite"}

PyInt(n) == [kind |-> "int", n |-> n]

\* A value placed in an f-string
format(v) ==
    IF v.kind = "str" THEN v.s
    ELSE IF v.kind = "None" THEN "None"
    ELSE IF v.n = 0 THEN "0" ELSE "1"

ReturnStr(s) == Return(PyStr(s))

\* The visitors are constructed without a table alias
table_alias == None

\* UNSAFE_CHARS.sub("_", identifier.lower())
RECURSIVE clean_identifier(_)
clean_identifier(identifier) ==
    IF identifier = "" THEN ""
    ELSE LET c == LowerCh(Ch(identifier, 1))
         IN (IF c \in CharsOf(LowerAZ) \cup CharsOf(UpperAZ) \cup CharsOf(Digits09)
                      \cup {"_"}
             THEN c ELSE "_") \o clean_identifier(Tail(identifier))

sql_visit_Identifier(d, node) ==
    LET sql_id == IF d = "base" THEN "\"" \o node.name \o "\""
                  ELSE "\"" \o clean_identifier(node.name) \o "\""
    IN IF table_alias # None THEN "\"" \o table_alias.s \o "\"." \o sql_id
       ELSE sql_id

sql_visit_Boolean(d, node) ==
    IF d = "sqlite" THEN (IF node.val = "false" THEN PyInt(0) ELSE PyInt(1))
    ELSE PyStr(upper(node.val))

sql_visit_String(d, node) ==
    LET val == replace(node.val, "'", "''")
    IN "'" \o val \o "'"

sql_visit_Date(d, node) ==
    IF d = "sqlite" THEN "date('" \o node.val \o "')" ELSE "DATE '" \o node.val \o "'"

sql_visit_DateTime(d, node) ==
    CASE d = "base" -> "TIMESTAMP '" \o replace(node.val, "T", " ") \o "'"
      [] d = "athena" -> "from_iso8601_timestamp('" \o node.val \o "')"
      [] d = "sqlite" -> "datetime('" \o node.val \o "')"

\* The intervals list of visit_Duration
Intervals(parts, units) ==
    LET Keep == {k \in 1..Len(parts) : parts[k] # None /\ parts[k].s # ""}
        F[k \in 0..Len(parts)] ==
            IF k = 0 THEN <<>>
            ELSE IF k \in Keep
                 THEN Append(F[k - 1], "INTERVAL '" \o parts[k].s \o "' " \o units[k])
                 ELSE F[k - 1]
    IN F[Len(parts)]

\* The text of visit_Duration for the sign and the intervals list
DurationSql(sign, intervals) ==
    IF Len(intervals) = 0 THEN ReturnStr("")
    ELSE IF Len(intervals) = 1 THEN ReturnStr(sign \o intervals[1])
    ELSE ReturnStr(sign \o "(" \o join(" + ", intervals) \o ")")

\* visit_Duration of AstToSqlVisitor after u = node.unpack()
base_Duration(u) ==
    IF ~u.ok THEN u
    ELSE DurationSql(IF u.val[1] # None THEN u.val[1].s ELSE "",
                     Intervals(Tail(u.val),
                               <<"YEAR", "MONTH", "DAY", "HOUR", "MINUTE", "SECOND">>))

base_visit_Duration(node) == base_Duration(unpack(node))

\* "sign, days, hours, minutes, seconds = node.unpack()" with the seven
\* values u that unpack returns
athena_Duration(u) ==
    IF ~u.ok THEN u
    ELSE IF Len(u.val) # 5
    THEN Raise(BuiltinException("ValueError", "too many values to unpack (expected 5)"))
    ELSE LET seconds == u.val[5]
             hasMillis == seconds # None /\ "." \in CharsOf(seconds.s)
             dot == IF hasMillis
                    THEN CHOOSE k \in 1..Len(seconds.s) :
                             /\ Ch(seconds.s, k) = "."
                             /\ \A j \in 1..(k - 1) : Ch(seconds.s, j) # "."
                    ELSE 0
             millis == IF hasMillis
                       THEN PyStr(SubSeq(SubSeq(seconds.s, dot + 1, Len(seconds.s))
                                         \o "000", 1, 3))
                       ELSE None
             secs == IF hasMillis THEN PyStr(SubSeq(seconds.s, 1, dot - 1))
                     ELSE seconds
         IN DurationSql(IF u.val[1] # None THEN u.val[1].s ELSE "",
                        Intervals(<<u.val[2], u.val[3], u.val[4], secs, millis>>,
                                  <<"DAY", "HOUR", "MINUTE", "SECOND", "MILLISECOND">>))

athena_visit_Duration(node) == athena_Duration(unpack(node))

\* visit_Add .. visit_Not
sql_visit_op(op) ==
    CASE op.kind = "Add" -> "+" [] op.kind = "Sub" -> "-" [] op.kind = "Mult" -> "*"
      [] op.kind = "Div" -> "/" [] op.kind = "Mod" -> "%" [] op.kind = "Eq" -> "="
      [] op.kind = "NotEq" -> "!=" [] op.kind = "Lt" -> "<" [] op.kind = "LtE" -> "<="
      [] op.kind = "Gt" -> ">" [] op.kind = "GtE" -> ">=" [] op.kind = "In" -> "IN"
      [] op.kind = "And" -> "AND" [] op.kind = "Or" -> "OR" [] op.kind = "Not" -> "NOT"

\* The visit_ methods the visitor classes define for operator nodes
SqlOpKinds ==
    {"Add", "Sub", "Mult", "Div", "Mod", "Eq", "NotEq", "Lt", "LtE", "Gt", "GtE",
     "In", "And", "Or", "Not"}

RECURSIVE sql_visit(_, _)
RECURSIVE sql_visit_each(_, _)
RECURSIVE generic_visit(_, _)
RECURSIVE sql_visit_Call(_, _)
RECURSIVE _to_pattern(_, _, _)

\* [self.visit(n) for n in nodes]
sql_visit_each(d, nodes) ==
    IF nodes = <<>> THEN Return(<<>>)
    ELSE LET h == sql_visit(d, Head(nodes))
         IN IF ~h.ok THEN h
            ELSE LET t == sql_visit_each(d, Tail(nodes))
                 IN IF ~t.ok THEN t ELSE Return(<<h.val>> \o t.val)

\* The fields of a node that hold nodes, in the order of the dataclass
ChildNodes(node) ==
    CASE node.kind = "Attribute" ->
            <<node.owner>> \o (IF node.attr.kind = "str" THEN <<>> ELSE <<node.attr>>)
      [] node.kind = "List" -> node.val
      [] node.kind \in {"BinOp", "BoolOp"} -> <<node.op, node.left, node.right>>
      [] node.kind = "Compare" -> <<node.comparator, node.left, node.right>>
      [] node.kind = "UnaryOp" -> <<node.op, node.operand>>
      [] node.kind = "Call" -> <<node.func>> \o node.args
      [] node.kind = "Lambda" -> <<node.identifier, node.expression>>
      [] node.kind = "CollectionLambda" ->
            <<node.owner, node.operator>>
            \o (IF node.lambda_ = None THEN <<>> ELSE <<node.lambda_>>)
      [] OTHER -> <<>>

\* NodeVisitor.generic_visit (visitor.py): visits the children, returns None
generic_visit(d, node) ==
    LET children == sql_visit_each(d, ChildNodes(node))
    IN IF ~children.ok THEN children ELSE Return(None)

\* ", ".join(...) and " || ".join(...) of visited values
py_join(sep, vals) ==
    IF \E k \in 1..Len(vals) : vals[k].kind # "str"
    THEN TypeError("sequence item: expected str instance")
    ELSE ReturnStr(join(sep, [k \in 1..Len(vals) |-> vals[k].s]))

sql_visit_List(d, node) ==
    LET vs == sql_visit_each(d, node.val)
    IN IF ~vs.ok THEN vs
       ELSE LET options == py_join(", ", vs.val)
            IN IF ~options.ok THEN options ELSE ReturnStr("(" \o options.val.s \o ")")

sql_visit_BinOp(d, node) ==
    LET left == sql_visit(d, node.left)
        right == sql_visit(d, node.right)
    IN IF ~left.ok THEN left
       ELSE IF ~right.ok THEN right
       ELSE ReturnStr(format(left.val) \o " " \o sql_visit_op(node.op) \o " "
                      \o format(right.val))

sql_visit_Compare(d, node) ==
    LET left == sql_visit(d, node.left)
        right == sql_visit(d, node.right)
        lsql == IF node.left.kind \in {"BoolOp", "Compare"}
                THEN "(" \o format(left.val) \o ")" ELSE format(left.val)
        rsql == IF node.right.kind \in {"BoolOp", "Compare"}
                THEN "(" \o format(right.val) \o ")" ELSE format(right.val)
        comparator == IF node.right.kind = "Null" /\ node.comparator.kind = "Eq"
                      THEN "IS"
                      ELSE IF node.right.kind = "Null" /\ node.comparator.kind = "NotEq"
                      THEN "IS NOT"
                      ELSE sql_visit_op(node.comparator)
    IN IF ~left.ok THEN left
       ELSE IF ~right.ok THEN right
       ELSE ReturnStr(lsql \o " " \o comparator \o " " \o rsql)

\* Every BoolOp operand in parentheses, whatever its operator
sql_visit_BoolOp_all_wrapped(d, node) ==
    LET left == sql_visit(d, node.left)
        right == sql_visit(d, node.right)
        lsql == IF node.left.kind = "BoolOp"
                THEN "(" \o format(left.val) \o ")" ELSE format(left.val)
        rsql == IF node.right.kind = "BoolOp"
                THEN "(" \o format(right.val) \o ")" ELSE format(right.val)
    IN IF ~left.ok THEN left
       ELSE IF ~right.ok THEN right
       ELSE ReturnStr(lsql \o " " \o sql_visit_op(node.op) \o " " \o rsql)

sql_visit_BoolOp(d, node) ==
    LET left == sql_visit(d, node.left)
        right == sql_visit(d, node.right)
        lsql == IF node.left.kind = "BoolOp" /\ node.left.op # node.op
                THEN "(" \o format(left.val) \o ")" ELSE format(left.val)
        rsql == IF node.right.kind = "BoolOp" /\ node.right.op # node.op
                THEN "(" \o format(right.val) \o ")" ELSE format(right.val)
    IN IF ~left.ok THEN left
       ELSE IF ~right.ok THEN right
       ELSE ReturnStr(lsql \o " " \o sql_visit_op(node.op) \o " " \o rsql)

sql_visit_UnaryOp(d, node) ==
    LET op == sql_visit(d, node.op)
        operand == sql_visit(d, node.operand)
        osql == IF node.operand.kind = "BoolOp"
                THEN "(" \o format(operand.val) \o ")" ELSE format(operand.val)
    IN IF ~operand.ok THEN operand
       ELSE ReturnStr(format(op.val) \o " " \o osql)

\* self.visit(node) of the visitor class of dialect d
sql_visit(d, node) ==
    CASE node.kind = "Identifier" -> ReturnStr(sql_visit_Identifier(d, node))
      [] node.kind = "Null" -> ReturnStr("NULL")
      [] node.kind \in {"Integer", "Float"} -> ReturnStr(node.val)
      [] node.kind = "Boolean" -> Return(sql_visit_Boolean(d, node))
      [] node.kind = "String" -> ReturnStr(sql_visit_String(d, node))
      [] node.kind = "Date" -> ReturnStr(sql_visit_Date(d, node))
      [] node.kind = "DateTime" -> ReturnStr(sql_visit_DateTime(d, node))
      [] node.kind = "Duration" /\ d = "base" -> base_visit_Duration(node)
      [] node.kind = "Duration" /\ d = "athena" -> athena_visit_Duration(node)
      [] node.kind = "GUID" -> ReturnStr("'" \o node.val \o "'")
      [] node.kind = "List" -> sql_visit_List(d, node)
      [] node.kind \in SqlOpKinds -> ReturnStr(sql_visit_op(node))
      [] node.kind = "BinOp" -> sql_visit_BinOp(d, node)
      [] node.kind = "Compare" -> sql_visit_Compare(d, node)
      [] node.kind = "BoolOp" -> sql_visit_BoolOp(d, node)
      [] node.kind = "UnaryOp" -> sql_visit_UnaryOp(d, node)
      [] node.kind = "Call" -> sql_visit_Call(d, node)
      [] OTHER -> generic_visit(d, node)

\* The sqlfunc_ methods each visitor class defines
sqlfuncs(d) ==
    {"concat", "contains", "endswith", "indexof", "length", "startswith",
     "substring", "tolower", "toupper", "trim", "year", "month", "day", "hour",
     "minute", "date", "now", "round", "floor", "ceiling"}
    \cup (IF d = "sqlite" THEN {} ELSE {"hassubset"})

\* AstToSqlVisitor._to_pattern
_to_pattern(arg, prefix, suffix) ==
    IF arg.kind \in {"Identifier", "Call"}
    THEN LET res == sql_visit("base", arg)
         IN IF ~res.ok THEN res
            ELSE IF res.val.kind # "str" THEN TypeError("can only concatenate str")
            ELSE ReturnStr((IF prefix # "" THEN "'" \o prefix \o "' || " ELSE "")
                           \o res.val.s
                           \o (IF suffix # "" THEN " || '" \o suffix \o "'" ELSE ""))
    ELSE IF arg.kind \notin LiteralKinds \ {"Null"}
    THEN Raise(BuiltinException("AttributeError", "object has no attribute 'val'"))
    ELSE LET str == IF arg.kind = "List"
                    THEN "[" \o join(", ", repr_each(arg.val)) \o "]"
                    ELSE arg.val
             res == replace(replace(str, "%", "%%"), "_", "__")
         IN ReturnStr("'" \o prefix \o res \o suffix \o "'")

\* The test that sqlfunc_contains, sqlfunc_endswith, sqlfunc_indexof and
\* sqlfunc_startswith of the base and Athena visitors make on the inferred
\* types: "str" for the string form, else the exception raised
StringOrList(name, args) ==
    LET inferred_type == [k \in 1..Len(args) |-> infer_type(args[k])]
    IN IF (\E k \in 1..Len(args) : inferred_type[k] = "String")
          \/ (\A k \in 1..Len(args) : inferred_type[k] = "None")
       THEN Return("str")
       ELSE IF \E k \in 1..Len(args) : inferred_type[k] = "List"
       THEN Raise(UnsupportedFunctionException(name \o "<List>"))
       ELSE Raise(ArgumentTypeException(name))

\* sqlfunc_contains (affix "%", "%"), sqlfunc_endswith ("%", "") and
\* sqlfunc_startswith ("", "%") of AstToSqlVisitor
base_sqlfunc_like(name, args, prefix, suffix) ==
    LET args_sql == sql_visit_each("base", args)
        form == StringOrList(name, args)
        pattern == _to_pattern(args[2], prefix, suffix)
    IN IF ~args_sql.ok THEN args_sql
       ELSE IF ~form.ok THEN form
       ELSE IF ~pattern.ok THEN pattern
       ELSE ReturnStr(format(args_sql.val[1]) \o " LIKE " \o pattern.val.s)

\* sqlfunc_contains, sqlfunc_endswith and sqlfunc_startswith of
\* AstToAthenaSqlVisitor
athena_sqlfunc_strpos(name, args) ==
    LET args_sql == sql_visit_each("athena", args)
        form == StringOrList(name, args)
        a0 == format(args_sql.val[1])
        a1 == format(args_sql.val[2])
    IN IF ~args_sql.ok THEN args_sql
       ELSE IF ~form.ok THEN form
       ELSE ReturnStr(CASE name = "contains" ->
                               "strpos(" \o a0 \o ", " \o a1 \o ") > 0"
                        [] name = "endswith" ->
                               "strpos(" \o a0 \o ", " \o a1 \o ") = length(" \o a0
                               \o ") - length(" \o a1 \o ") + 1"
                        [] name = "startswith" ->
                               "strpos(" \o a0 \o ", " \o a1 \o ") = 1")

\* sqlfunc_contains (affix "%", "%"), sqlfunc_endswith ("%", "") and
\* sqlfunc_startswith ("", "%") of AstToSqliteSqlVisitor
sqlite_sqlfunc_like(field, substr, prefix, suffix) ==
    LET left == sql_visit("sqlite", field)
        right == sql_visit("sqlite", substr)
    IN IF ~left.ok THEN left
       ELSE IF ~right.ok THEN right
       ELSE IF right.val.kind # "str" THEN TypeError("object is not subscriptable")
       ELSE ReturnStr(format(left.val) \o " LIKE '" \o prefix
                      \o Slice(right.val.s, 1, Len(right.val.s) - 1) \o suffix \o "'")

sqlfunc_concat(d, args) ==
    LET args_sql == sql_visit_each(d, args)
    IN IF ~args_sql.ok THEN args_sql
       ELSE CASE d = "base" -> ReturnStr(format(args_sql.val[1]) \o " || "
                                         \o format(args_sql.val[2]))
              [] d = "athena" -> ReturnStr("concat(" \o format(args_sql.val[1]) \o ", "
                                           \o format(args_sql.val[2]) \o ")")
              [] d = "sqlite" -> py_join(" || ", args_sql.val)

sqlfunc_indexof(d, args) ==
    LET args_sql == sql_visit_each(d, args)
        form == IF d = "sqlite" THEN Return("str") ELSE StringOrList("indexof", args)
        a0 == format(args_sql.val[1])
        a1 == format(args_sql.val[2])
    IN IF ~args_sql.ok THEN args_sql
       ELSE IF ~form.ok THEN form
       ELSE CASE d = "base" -> ReturnStr("POSITION(" \o a1 \o " IN " \o a0 \o ") - 1")
              [] d = "athena" -> ReturnStr("strpos(" \o a0 \o ", " \o a1 \o ") - 1")
              [] d = "sqlite" -> ReturnStr("INSTR(" \o a0 \o ", " \o a1 \o ") - 1")

sqlfunc_length(d, arg) ==
    LET arg_sql == sql_visit(d, arg)
        inferred_type == infer_type(arg)
    IN IF ~arg_sql.ok THEN arg_sql
       ELSE IF d = "sqlite" THEN ReturnStr("length(" \o format(arg_sql.val) \o ")")
       ELSE IF inferred_type \in {"String", "None"}
       THEN ReturnStr((IF d = "base" THEN "CHAR_LENGTH(" ELSE "length(")
                      \o format(arg_sql.val) \o ")")
       ELSE IF inferred_type = "List"
       THEN ReturnStr((IF d = "base" THEN "CARDINALITY(" ELSE "cardinality(")
                      \o format(arg_sql.val) \o ")")
       ELSE Raise(ArgumentTypeException("length"))

sqlfunc_substring(d, args) ==
    LET args_sql == sql_visit_each(d, args)
        inferred_type == infer_type(args[1])
        a == [k \in 1..Len(args) |-> format(args_sql.val[k])]
    IN IF ~args_sql.ok THEN args_sql
       ELSE IF inferred_type \in {"String", "None"} /\ Len(args) \in {2, 3}
       THEN IF d = "base"
            THEN ReturnStr("SUBSTRING(" \o a[1] \o " FROM " \o a[2] \o " + 1"
                           \o (IF Len(args) = 3 THEN " FOR " \o a[3] ELSE "") \o ")")
            ELSE ReturnStr("substr(" \o a[1] \o ", " \o a[2] \o " + 1"
                           \o (IF Len(args) = 3 THEN ", " \o a[3] ELSE "") \o ")")
       ELSE IF inferred_type = "List" /\ d = "base"
       THEN Raise(UnsupportedFunctionException("substring<List>"))
       ELSE IF inferred_type = "List" /\ Len(args) \in {2, 3}
       THEN ReturnStr("slice(" \o join(", ", a) \o ")")
       ELSE Raise(ArgumentTypeException("substring"))

\* The one-argument functions whose method formats the visited argument
\* into a fixed text: tolower, toupper, trim, year, month, day, hour,
\* minute, date, round, floor, ceiling
sqlfunc_unary(d, name, arg) ==
    LET v == sql_visit(d, arg)
        a == format(v.val)
        Fn(f) == f \o "(" \o a \o ")"
        strftime == CASE name = "year" -> "y" [] name = "month" -> "m"
                      [] name = "day" -> "d" [] name = "hour" -> "H"
                      [] name = "minute" -> "M"
        extract == IF d = "base" THEN "EXTRACT (" \o upper(name) \o " FROM " \o a \o ")"
                   ELSE IF d = "athena" THEN Fn(name)
                   ELSE "strftime('%" \o strftime \o "', " \o a \o ")"
        date == IF d = "base" THEN "CAST (" \o a \o " AS DATE)"
                ELSE IF d = "athena" THEN "date_trunc(day, " \o a \o ")"
                ELSE Fn("date")
        floor == IF d = "base"
                 THEN "CASE " \o a \o "\n    WHEN > 0 CAST (" \o a \o " AS INTEGER)"
                      \o "\n    WHEN < 0 CAST (0 - (ABS(" \o a \o ") + 0.5) AS INTEGER))"
                      \o "\n    ELSE " \o a \o "\nEND"
                 ELSE Fn("floor")
        ceiling == IF d = "base"
                   THEN "CASE " \o a \o " - CAST (" \o a \o " AS INTEGER)"
                        \o "\n    WHEN > 0 " \o a \o "+1" \o "\n    WHEN < 0 " \o a \o "-1"
                        \o "\n    ELSE " \o a \o "\nEND"
                   ELSE Fn("ceiling")
    IN IF ~v.ok THEN v
       ELSE ReturnStr(
         CASE name = "tolower" -> IF d = "base" THEN Fn("LOWER") ELSE Fn("lower")
           [] name = "toupper" -> IF d = "base" THEN Fn("UPPER") ELSE Fn("upper")
           [] name = "trim" -> IF d = "base" THEN Fn("TRIM") ELSE Fn("trim")
           [] name \in {"year", "month", "day", "hour", "minute"} -> extract
           [] name = "date" -> date
           [] name = "round" ->
                IF d = "base" THEN "CAST (" \o a \o " + 0.5 AS INTEGER)" ELSE Fn("round")
           [] name = "floor" -> floor
           [] name = "ceiling" -> ceiling)

sqlfunc_now(d) == IF d = "sqlite" THEN "datetime('now')" ELSE "CURRENT_TIMESTAMP"

sqlfunc_hassubset(d, args) ==
    IF d = "base" THEN Raise(UnsupportedFunctionException("hassubset"))
    ELSE LET args_sql == sql_visit_each(d, args)
         IN IF ~args_sql.ok THEN args_sql
            ELSE ReturnStr("cardinality(array_intersect(" \o format(args_sql.val[1])
                           \o ", " \o format(args_sql.val[2]) \o ")) = cardinality("
                           \o format(args_sql.val[2]) \o ")")

\* visit_Call: getattr(self, "sqlfunc_" + node.func.name.lower()) and the
\* call of the method found
sql_visit_Call(d, node) ==
    LET name == lower(node.func.name)
        args == node.args
        prefix == IF name = "startswith" THEN "" ELSE "%"
        suffix == IF name = "endswith" THEN "" ELSE "%"
    IN IF name \notin sqlfuncs(d)
       THEN Raise(UnsupportedFunctionException(node.func.name))
       ELSE CASE name = "concat" -> sqlfunc_concat(d, args)
              [] name \in {"contains", "endswith", "startswith"} /\ d = "base" ->
                   base_sqlfunc_like(name, args, prefix, suffix)
              [] name \in {"contains", "endswith", "startswith"} /\ d = "athena" ->
                   athena_sqlfunc_strpos(name, args)
              [] name \in {"contains", "endswith", "startswith"} /\ d = "sqlite" ->
                   sqlite_sqlfunc_like(args[1], args[2], prefix, suffix)
              [] name = "indexof" -> sqlfunc_indexof(d, args)
              [] name = "length" -> sqlfunc_length(d, args[1])
              [] name = "substring" -> sqlfunc_substring(d, args)
              [] name = "now" -> ReturnStr(sqlfunc_now(d))
              [] name = "hassubset" -> sqlfunc_hassubset(d, args)
              [] OTHER -> sqlfunc_unary(d, name, args[1])

(***************************************************************************)
(* The transformers: NodeTransformer (visitor.py), AliasRewriter           *)
(* (rewrite.py) and the IdentifierStripper of utils.py.  A transformer is  *)
(* a record with its class name in cls and the attributes __init__ set.    *)
(***************************************************************************)
\* The names of the fields of the dataclass of a node, in their order
iter_dataclass_fields(node) ==
    CASE node.kind = "Identifier" -> <<"name", "namespace">>
      [] node.kind = "Attribute" -> <<"owner", "attr">>
      [] node.kind \in {"BinOp", "BoolOp"} -> <<"op", "left", "right">>
      [] node.kind = "Compare" -> <<"comparator", "left", "right">>
      [] node.kind = "UnaryOp" -> <<"op", "operand">>
      [] node.kind = "Call" -> <<"func", "args">>
      [] node.kind = "Lambda" -> <<"identifier", "expression">>
      [] node.kind = "CollectionLambda" -> <<"owner", "operator", "lambda_">>
      [] node.kind \in LiteralKinds \ {"Null"} -> <<"val">>
      [] OTHER -> <<>>

\* isinstance(value, list) for the value of field f of a node
IsListField(node, f) ==
    \/ node.kind = "List" /\ f = "val"
    \/ node.kind = "Call" /\ f = "args"

\* isinstance(value, ast._Node) for the value of field f of a node
IsNodeField(node, f) ==
    \/ f \in {"owner", "op", "left", "right", "comparator", "operand", "func",
              "identifier", "expression", "operator"}
    \/ f = "attr" /\ node.attr.kind # "str"
    \/ f = "lambda_" /\ node.lambda_ # None

\* hash(node) raises nothing: the hash of a dataclass instance is the hash
\* of the tuple of its fields, and a list has none
RECURSIVE hashable(_)
hashable(node) ==
    /\ node.kind \notin {"List", "Call"}
    /\ \A k \in 1..Len(ChildNodes(node)) : hashable(ChildNodes(node)[k])

NodeTransformer == [cls |-> "NodeTransformer"]

\* The dict self.replacements as the list of its items, a later item for a
\* key standing for an earlier one
RECURSIVE AliasRewriter_replacements(_, _, _)
AliasRewriter_replacements(field_aliases, k, items) ==
    IF k > Len(field_aliases)
    THEN [ok |-> TRUE, val |-> [cls |-> "AliasRewriter", replacements |-> items]]
    ELSE Then(parse(tokenize(field_aliases[k])), LAMBDA r :
            IF k % 2 = 1
            THEN AliasRewriter_replacements(field_aliases, k + 1,
                                            Append(items, [key |-> r.node]))
            ELSE IF ~hashable(items[Len(items)].key)
            THEN TypeError("unhashable type: 'list'")
            ELSE AliasRewriter_replacements(
                     field_aliases, k + 1,
                     [items EXCEPT ![Len(items)] =
                         [key |-> items[Len(items)].key, value |-> r.node]]))

\* AliasRewriter(field_aliases), field_aliases being key, value, key, ...
AliasRewriter(field_aliases) == AliasRewriter_replacements(field_aliases, 1, <<>>)

\* node in self.replacements
InReplacements(self, node) ==
    \E k \in 1..Len(self.replacements) : self.replacements[k].key = node

\* self.replacements[node]
Replacement(self, node) ==
    self.replacements[
        CHOOSE k \in 1..Len(self.replacements) :
            /\ self.replacements[k].key = node
            /\ \A j \in (k + 1)..Len(self.replacements) :
                  self.replacements[j].key # node].value

RECURSIVE NodeTransformer_visit(_, _)

AliasRewriter_visit_Identifier(self, node) ==
    IF InReplacements(self, node) THEN Replacement(self, node) ELSE node

AliasRewriter_visit_Attribute(self, node) ==
    IF InReplacements(self, node) THEN Replacement(self, node)
    ELSE Attribute(NodeTransformer_visit(self, node.owner), node.attr)

\* A generic_visit that builds the new node without its list-valued fields
NodeTransformer_generic_visit_no_lists(self, node) ==
    [f \in DOMAIN node |->
        IF f = "kind" THEN node.kind
        ELSE IF IsListField(node, f) THEN <<>>
        ELSE IF IsNodeField(node, f) THEN NodeTransformer_visit(self, node[f])
        ELSE node[f]]

\* type(node)(**new_kwargs)
NodeTransformer_generic_visit(self, node) ==
    [f \in {"kind"} \cup {iter_dataclass_fields(node)[k] :
                             k \in 1..Len(iter_dataclass_fields(node))} |->
        IF f = "kind" THEN node.kind
        ELSE IF IsListField(node, f)
        THEN [k \in 1..Len(node[f]) |-> NodeTransformer_visit(self, node[f][k])]
        ELSE IF IsNodeField(node, f) THEN NodeTransformer_visit(self, node[f])
        ELSE node[f]]

\* self.visit(node) of a NodeTransformer or an AliasRewriter
NodeTransformer_visit(self, node) ==
    CASE self.cls = "AliasRewriter" /\ node.kind = "Identifier" ->
            AliasRewriter_visit_Identifier(self, node)
      [] self.cls = "AliasRewriter" /\ node.kind = "Attribute" ->
            AliasRewriter_visit_Attribute(self, node)
      [] OTHER -> NodeTransformer_generic_visit(self, node)

\* What a call of the stripper of utils.py leaves: the node it returned or
\* the exception it raised, and obj, the node it was called on as it is
\* after the call
Stripped(node, obj) == [ok |-> TRUE, node |-> node, obj |-> obj]
StripRaise(exc, obj) == [ok |-> FALSE, exc |-> exc, obj |-> obj]

\* node.field = val on an instance of a dataclass that is not frozen
setattr_unfrozen(node, field, val) ==
    [ok |-> TRUE, node |-> [node EXCEPT ![field] = val]]

\* node.field = val on an instance of a dataclass with frozen=True
setattr(node, field, val) ==
    Raise(BuiltinException("FrozenInstanceError",
                           "cannot assign to field '" \o field \o "'"))

RECURSIVE IdentifierStripper_visit(_, _)
RECURSIVE IdentifierStripper_items(_, _, _, _)
RECURSIVE IdentifierStripper_fields(_, _, _)

\* The end of an assignment s to a field of obj, then the fields from k on
IdentifierStripper_assigned(strip, obj, k, s) ==
    IF ~s.ok THEN StripRaise(s.exc, obj)
    ELSE IdentifierStripper_fields(strip, s.node, k)

\* The items of a list from the k-th on, res being the results so far
IdentifierStripper_items(strip, items, k, res) ==
    IF k > Len(items) THEN [ok |-> TRUE, res |-> res, items |-> items]
    ELSE With(IdentifierStripper_visit(strip, items[k]), LAMBDA r :
            IF ~r.ok
            THEN [ok |-> FALSE, exc |-> r.exc, items |-> [items EXCEPT ![k] = r.obj]]
            ELSE IdentifierStripper_items(strip, [items EXCEPT ![k] = r.obj],
                                          k + 1, Append(res, r.node)))

\* The loop of generic_visit over the fields of obj from the k-th on
IdentifierStripper_fields(strip, obj, k) ==
    IF k > Len(iter_dataclass_fields(obj)) THEN Stripped(obj, obj)
    ELSE With(iter_dataclass_fields(obj)[k], LAMBDA f :
            IF IsListField(obj, f)
            THEN With(IdentifierStripper_items(strip, obj[f], 1, <<>>), LAMBDA r :
                    IF ~r.ok THEN StripRaise(r.exc, [obj EXCEPT ![f] = r.items])
                    ELSE IdentifierStripper_assigned(
                             strip, [obj EXCEPT ![f] = r.items], k + 1,
                             setattr([obj EXCEPT ![f] = r.items], f, r.res)))
            ELSE IF IsNodeField(obj, f)
            THEN With(IdentifierStripper_visit(strip, obj[f]), LAMBDA r :
                    IF ~r.ok THEN StripRaise(r.exc, [obj EXCEPT ![f] = r.obj])
                    ELSE IdentifierStripper_assigned(
                             strip, [obj EXCEPT ![f] = r.obj], k + 1,
                             setattr([obj EXCEPT ![f] = r.obj], f, r.node)))
            ELSE IdentifierStripper_assigned(strip, obj, k + 1,
                                             setattr(obj, f, obj[f])))

IdentifierStripper_generic_visit(strip, node) ==
    IdentifierStripper_fields(strip, node, 1)

\* The end of visit_Attribute after 'node.owner = self.visit(node.owner)'
IdentifierStripper_owner_assigned(obj, s) ==
    IF ~s.ok THEN StripRaise(s.exc, obj) ELSE Stripped(s.node, s.node)

IdentifierStripper_visit_Attribute(strip, node) ==
    IF node.owner = strip
    THEN Stripped([kind |-> "Identifier",
                   name |-> IF node.attr.kind = "str" THEN node.attr.s ELSE node.attr,
                   namespace |-> <<>>], node)
    ELSE IF node.owner.kind = "Attribute"
    THEN With(IdentifierStripper_visit(strip, node.owner), LAMBDA r :
            IF ~r.ok THEN StripRaise(r.exc, [node EXCEPT !.owner = r.obj])
            ELSE IdentifierStripper_owner_assigned(
                     [node EXCEPT !.owner = r.obj],
                     setattr([node EXCEPT !.owner = r.obj], "owner", r.node)))
    ELSE Stripped(node, node)

\* self.visit(node) of the IdentifierStripper of utils.py
IdentifierStripper_visit(strip, node) ==
    IF node.kind = "Attribute" THEN IdentifierStripper_visit_Attribute(strip, node)
    ELSE IdentifierStripper_generic_visit(strip, node)

expression_relative_to_identifier(identifier, expression) ==
    IdentifierStripper_visit(identifier, expression)

(***************************************************************************)
(* The Django visitor (django/django_q.py, AstToDjangoQVisitor).  A Django *)
(* object is a record with the name of its class in cls; an F has the     *)
(* name of its field in name, a Q the class of its child in child.  A call *)
(* of visit leaves the value it returned or the exception it raised, and   *)
(* in depth the value of self._depth after it.  Django 4 or later is      *)
(* installed, and the root model has the fields and the relationships the  *)
(* filter names.                                                           *)
(***************************************************************************)
DJANGO_LT_4 == FALSE

F(name) == [cls |-> "F", name |-> name]
Django(cls) == [cls |-> cls, name |-> ""]
Q(node) == [cls |-> "Q", name |-> "", child |-> node.cls]

Visited(val, depth) == [ok |-> TRUE, val |-> val, depth |-> depth]
VisitRaise(exc, depth) == [ok |-> FALSE, exc |-> exc, depth |-> depth]

TypeException(operation, value) ==
    [type |-> "TypeException", operation |-> operation, value |-> value]

\* The subclasses of lookups.Lookup the visitor makes
Lookups ==
    {"Exact", "NotEqual", "LessThan", "LessThanOrEqual", "GreaterThan",
     "GreaterThanOrEqual", "In", "IsNull", "Contains", "StartsWith", "EndsWith",
     "Regex"}

\* The classes of the objects of the visitor that are Django expressions:
\* they combine with any operand in arithmetic
Expressions ==
    Lookups \cup {"F", "Value", "CombinedExpression", "Exists", "Length", "Concat",
                  "StrIndex", "Substr", "Lower", "Upper", "Trim", "TruncDate",
                  "ExtractDay", "ExtractHour", "ExtractMinute", "ExtractMonth",
                  "Now", "ExtractSecond", "TruncTime", "ExtractYear", "Ceil",
                  "Floor", "Round"}

\* The class a djangofunc_ method of one argument wraps the argument in
DjangoFunctions ==
    [name \in {"length"} |-> "Length"] @@ [name \in {"tolower"} |-> "Lower"]
    @@ [name \in {"toupper"} |-> "Upper"] @@ [name \in {"trim"} |-> "Trim"]
    @@ [name \in {"date"} |-> "TruncDate"] @@ [name \in {"day"} |-> "ExtractDay"]
    @@ [name \in {"hour"} |-> "ExtractHour"]
    @@ [name \in {"minute"} |-> "ExtractMinute"]
    @@ [name \in {"month"} |-> "ExtractMonth"]
    @@ [name \in {"second"} |-> "ExtractSecond"]
    @@ [name \in {"time"} |-> "TruncTime"] @@ [name \in {"year"} |-> "ExtractYear"]
    @@ [name \in {"ceiling"} |-> "Ceil"] @@ [name \in {"floor"} |-> "Floor"]
    @@ [name \in {"round"} |-> "Round"]

\* The names with a djangofunc_ method that does not need GeoDjango
djangofuncs ==
    DOMAIN DjangoFunctions
    \cup {"contains", "startswith", "endswith", "concat", "indexof", "substring",
          "matchespattern", "now"}

\* _ensure_q(node) with Django 4 or later
_ensure_q(node) == IF node.cls \in {"Q", "Exists"} THEN node ELSE Q(node)

\* visit_Add ... visit_Mod, visit_Eq ... visit_In, visit_And, visit_Or and
\* visit_Not: the function or the class returned.  There is no method for
\* USub: generic_visit returns None
django_visit_op(node) ==
    CASE node.kind = "Add" -> [cls |-> "function", name |-> "add"]
      [] node.kind = "Sub" -> [cls |-> "function", name |-> "sub"]
      [] node.kind = "Mult" -> [cls |-> "function", name |-> "mul"]
      [] node.kind = "Div" -> [cls |-> "function", name |-> "truediv"]
      [] node.kind = "Mod" -> [cls |-> "function", name |-> "mod"]
      [] node.kind = "Eq" -> [cls |-> "type", name |-> "Exact"]
      [] node.kind = "NotEq" -> [cls |-> "type", name |-> "NotEqual"]
      [] node.kind = "Lt" -> [cls |-> "type", name |-> "LessThan"]
      [] node.kind = "LtE" -> [cls |-> "type", name |-> "LessThanOrEqual"]
      [] node.kind = "Gt" -> [cls |-> "type", name |-> "GreaterThan"]
      [] node.kind = "GtE" -> [cls |-> "type", name |-> "GreaterThanOrEqual"]
      [] node.kind = "In" -> [cls |-> "type", name |-> "In"]
      [] node.kind = "And" -> [cls |-> "function", name |-> "and_"]
      [] node.kind = "Or" -> [cls |-> "function", name |-> "or_"]
      [] node.kind = "Not" -> [cls |-> "function", name |-> "invert"]
      [] OTHER -> Django("NoneType")

\* op(left, right) for an arithmetic operator: a Django expression on
\* either side gives a CombinedExpression, two lists are concatenated
django_arithmetic(op, left, right, depth) ==
    IF left.cls \in Expressions \/ right.cls \in Expressions
    THEN Visited(Django("CombinedExpression"), depth)
    ELSE IF op.name = "add" /\ left.cls = "list" /\ right.cls = "list"
    THEN Visited(Django("list"), depth)
    ELSE VisitRaise(BuiltinException("TypeError", "unsupported operand type(s)"), depth)

\* op(left, right) for operator.and_ and operator.or_: a Q, a lookup and an
\* Exists are conditional and make a Q
django_logical(left, right, depth) ==
    IF left.cls \in Lookups \cup {"Q", "Exists"}
       /\ right.cls \in Lookups \cup {"Q", "Exists"}
    THEN Visited([cls |-> "Q", name |-> "", child |-> "Q"], depth)
    ELSE IF left.cls \in Expressions \/ right.cls \in Expressions
    THEN VisitRaise(BuiltinException("NotImplementedError",
                                     "Use .bitand(), .bitor(), and .bitxor()"), depth)
    ELSE VisitRaise(BuiltinException("TypeError", "unsupported operand type(s)"), depth)

RECURSIVE AstToDjangoQVisitor_visit(_, _)
RECURSIVE django_visit_each(_, _)

\* [self.visit(n) for n in nodes] from depth on: the list of the values
django_visit_each(nodes, depth) ==
    IF nodes = <<>> THEN Visited(<<>>, depth)
    ELSE Then(AstToDjangoQVisitor_visit(Head(nodes), depth), LAMBDA h :
            Then(django_visit_each(Tail(nodes), h.depth), LAMBDA t :
                Visited(<<h.val>> \o t.val, t.depth)))

django_visit_Attribute(node, depth) ==
    Then(AstToDjangoQVisitor_visit(node.owner, depth), LAMBDA owner :
        IF owner.val.cls # "F"
        THEN VisitRaise(BuiltinException("AttributeError", "name"), owner.depth)
        ELSE IF node.attr.kind # "str"
        THEN VisitRaise(BuiltinException("TypeError", "can only concatenate str"),
                        owner.depth)
        ELSE Visited(F(owner.val.name \o "__" \o node.attr.s), owner.depth))

\* visit_Integer ... visit_GUID: Value(node.py_val); of these only the
\* py_val of a Duration can fail on a literal the lexer has matched
django_visit_Literal(node, depth) ==
    IF node.kind = "Duration" /\ ~unpack(node).ok
    THEN VisitRaise(unpack(node).exc, depth)
    ELSE Visited(Django("Value"), depth)

django_visit_BinOp(node, depth) ==
    Then(AstToDjangoQVisitor_visit(node.left, depth), LAMBDA left :
        Then(AstToDjangoQVisitor_visit(node.right, left.depth), LAMBDA right :
            Then(AstToDjangoQVisitor_visit(node.op, right.depth), LAMBDA op :
                django_arithmetic(op.val, left.val, right.val, op.depth))))

django_visit_Compare(node, depth) ==
    Then(AstToDjangoQVisitor_visit(node.left, depth), LAMBDA lhs :
        IF node.right.kind = "Null"
        THEN IF node.comparator.kind \in {"Eq", "NotEq"}
             THEN Visited(Django("IsNull"), lhs.depth)
             ELSE VisitRaise(TypeException(node.comparator.kind, "null"), lhs.depth)
        ELSE Then(AstToDjangoQVisitor_visit(node.comparator, lhs.depth),
                  LAMBDA django_cls :
                Then(AstToDjangoQVisitor_visit(node.right, django_cls.depth),
                     LAMBDA rhs : Visited(Django(django_cls.val.name), rhs.depth))))

django_visit_BoolOp(node, depth) ==
    Then(AstToDjangoQVisitor_visit(node.left, depth), LAMBDA left :
        Then(AstToDjangoQVisitor_visit(node.right, left.depth), LAMBDA right :
            IF left.val.cls \in {"F", "Value"}
            THEN VisitRaise(TypeException(node.op.kind, left.val.cls), right.depth)
            ELSE IF right.val.cls \in {"F", "Value"}
            THEN VisitRaise(TypeException(node.op.kind, right.val.cls), right.depth)
            ELSE Then(AstToDjangoQVisitor_visit(node.op, right.depth), LAMBDA op :
                    django_logical(left.val, right.val, op.depth))))

django_visit_UnaryOp(node, depth) ==
    Then(AstToDjangoQVisitor_visit(node.op, depth), LAMBDA mod :
        Then(AstToDjangoQVisitor_visit(node.operand, mod.depth), LAMBDA val :
            IF mod.val.cls # "function"
            THEN VisitRaise(TypeException(node.op.kind, _ensure_q(val.val).cls),
                            val.depth)
            ELSE Visited(_ensure_q(val.val), val.depth)))

\* _substr_function(field, substr, django_func)
_substr_function(field, substr, django_func, depth) ==
    IF infer_type(field) \notin {"None", "Identifier", "String"}
    THEN VisitRaise(ArgumentTypeException("field"), depth)
    ELSE IF infer_type(substr) \notin {"None", "String"}
    THEN VisitRaise(ArgumentTypeException("substring"), depth)
    ELSE Then(django_visit_each(<<field, substr>>, depth), LAMBDA args :
            Visited(Django(django_func), args.depth))

\* self.visit(index) + 1 of djangofunc_substring
django_index_plus_1(index) ==
    IF index.val.cls \in Expressions
    THEN Visited(Django("CombinedExpression"), index.depth)
    ELSE VisitRaise(BuiltinException("TypeError", "unsupported operand type(s)"),
                    index.depth)

djangofunc_substring(args, depth) ==
    Then(AstToDjangoQVisitor_visit(args[1], depth), LAMBDA fullstr :
        Then(AstToDjangoQVisitor_visit(args[2], fullstr.depth), LAMBDA index :
            Then(django_index_plus_1(index), LAMBDA pos :
                IF Len(args) = 3
                THEN Then(AstToDjangoQVisitor_visit(args[3], pos.depth),
                          LAMBDA nchars : Visited(Django("Substr"), nchars.depth))
                ELSE Visited(Django("Substr"), pos.depth))))

django_visit_Call(node, depth) ==
    With(lower(replace(join(".", node.func.namespace \o <<node.func.name>>),
                       ".", "__")), LAMBDA name :
        IF name \notin djangofuncs
        THEN VisitRaise(UnsupportedFunctionException(
                            replace(join(".", node.func.namespace \o <<node.func.name>>),
                                    ".", "__")), depth)
        ELSE CASE name = "contains" ->
                    _substr_function(node.args[1], node.args[2], "Contains", depth)
               [] name = "startswith" ->
                    _substr_function(node.args[1], node.args[2], "StartsWith", depth)
               [] name = "endswith" ->
                    _substr_function(node.args[1], node.args[2], "EndsWith", depth)
               [] name = "concat" ->
                    Then(django_visit_each(node.args, depth), LAMBDA args :
                        Visited(Django("Concat"), args.depth))
               [] name = "indexof" ->
                    Then(django_visit_each(node.args, depth), LAMBDA args :
                        Visited(Django("CombinedExpression"), args.depth))
               [] name = "substring" -> djangofunc_substring(node.args, depth)
               [] name = "matchespattern" ->
                    Then(django_visit_each(node.args, depth), LAMBDA args :
                        Visited(Django("Regex"), args.depth))
               [] name = "now" -> Visited(Django("Now"), depth)
               [] OTHER ->
                    Then(AstToDjangoQVisitor_visit(node.args[1], depth), LAMBDA field :
                        Visited(Django(DjangoFunctions[name]), field.depth)))

\* The lambda of visit_CollectionLambda: the filter of the subquery, which
\* a visitor of its own makes of the expression relative to the identifier
django_subquery_filter(node, depth) ==
    IF node.lambda_ = None THEN Visited(None, depth)
    ELSE With(expression_relative_to_identifier(node.lambda_.identifier,
                                                node.lambda_.expression),
              LAMBDA subq_ast :
                IF ~subq_ast.ok THEN VisitRaise(subq_ast.exc, depth)
                ELSE With(AstToDjangoQVisitor_visit(subq_ast.node, 0),
                          LAMBDA subquery_filter :
                            IF ~subquery_filter.ok
                            THEN VisitRaise(subquery_filter.exc, depth)
                            ELSE Visited(subquery_filter.val, depth)))

django_visit_CollectionLambda(node, depth) ==
    IF node.owner.kind \in LiteralKinds
    THEN VisitRaise(TypeException("lambda_expression", node.owner.kind), depth)
    ELSE Then(AstToDjangoQVisitor_visit(node.owner, depth), LAMBDA owner_path :
            Then(django_subquery_filter(node, owner_path.depth),
                 LAMBDA subquery_filter :
                    IF node.operator.kind \in {"Any", "All"}
                    THEN Visited(Django("Exists"), subquery_filter.depth)
                    ELSE VisitRaise(BuiltinException("NotImplementedError", ""),
                                    subquery_filter.depth)))

\* NodeVisitor.visit(node): the visit_ method of the class of the node
NodeVisitor_visit(node, depth) ==
    CASE node.kind = "Identifier" -> Visited(F(node.name), depth)
      [] node.kind = "Attribute" -> django_visit_Attribute(node, depth)
      [] node.kind = "Null" ->
            VisitRaise(BuiltinException("NotImplementedError",
                                        "Should not be reached"), depth)
      [] node.kind = "List" ->
            Then(django_visit_each(node.val, depth), LAMBDA items :
                Visited(Django("list"), items.depth))
      [] node.kind \in LiteralKinds \ {"Geography"} ->
            django_visit_Literal(node, depth)
      [] node.kind = "BinOp" -> django_visit_BinOp(node, depth)
      [] node.kind = "Compare" -> django_visit_Compare(node, depth)
      [] node.kind = "BoolOp" -> django_visit_BoolOp(node, depth)
      [] node.kind = "UnaryOp" -> django_visit_UnaryOp(node, depth)
      [] node.kind = "Call" -> django_visit_Call(node, depth)
      [] node.kind = "CollectionLambda" -> django_visit_CollectionLambda(node, depth)
      [] OTHER -> Visited(django_visit_op(node), depth)

\* AstToDjangoQVisitor.visit(node) with self._depth = depth at the call
AstToDjangoQVisitor_visit(node, depth) ==
    Then(NodeVisitor_visit(node, depth + 1), LAMBDA res :
        IF res.depth - 1 = 0 THEN Visited(_ensure_q(res.val), res.depth - 1)
        ELSE Visited(res.val, res.depth - 1))

(***************************************************************************)
(* The filter texts the library is run on                                  *)
(***************************************************************************)
\* The most binary operators in a chain of operands
MaxOperators == 2
\* The most characters in the value of a string literal
MaxStrLen == 2
\* The most arguments written in a function call
MaxArgs == 4
\* The most segments in a path
MaxPathLen == 4

BinaryWords == {"or", "and", "eq", "ne", "gt", "add", "sub", "mul"}

OperandNames == <<"a", "b", "c", "d", "e">>

\* names[1] ops[1] names[2] ... ops[n] names[n + 1]
RECURSIVE Chain(_, _, _)
Chain(names, ops, n) ==
    IF n = 0 THEN names[1]
    ELSE Chain(names, ops, n - 1) \o " " \o ops[n] \o " " \o names[n + 1]

FlatTexts ==
    {Chain(OperandNames, ops, n) :
        ops \in [1..MaxOperators -> BinaryWords], n \in 0..MaxOperators}
    \cup {"1 add 2 mul 3", "1 add 2 add 3", "1 mod 2 div 3 le 4 ge 5 lt 6"}

GroupedTexts ==
    LET n == <<"a", "b", "c">>
    IN UNION {{n[1] \o " " \o o[1] \o " (" \o n[2] \o " " \o o[2] \o " " \o n[3] \o ")",
               "(" \o n[1] \o " " \o o[1] \o " " \o n[2] \o ") " \o o[2] \o " " \o n[3]} :
              o \in BinaryWords \X BinaryWords}

\* and/or with and/or operands, grouped by parentheses or by precedence
BoolWords == {"and", "or"}

BoolTexts ==
    {"(a " \o o[1] \o " b) " \o o[2] \o " (c " \o o[3] \o " d)" :
        o \in BoolWords \X BoolWords \X BoolWords}
    \cup {"a and (b or c) and d", "a and b and c", "a or b and c"}

PrefixedTexts ==
    {prefix \o Chain(<<"a", "b", "c">>, <<op, "and">>, n) \o suffix :
        prefix \in {"not ", "- ", "-", "not not "}, op \in BinaryWords,
        n \in 0..1, suffix \in {"", " in (1, 2)"}}

StrChars == {"x", "'", "%"}

RECURSIVE StrValues(_)
StrValues(n) ==
    IF n = 0 THEN {""}
    ELSE StrValues(n - 1) \cup {v \o c : v \in StrValues(n - 1), c \in StrChars}

\* A value written as a string literal
StringLiteral(val) == "'" \o replace(val, "'", "''") \o "'"

LiteralTexts ==
    {"null", "1", "-1", "1.5", "true", "2020-01-01", "2020-01-01T10:30:00Z",
     "12:30:00", "duration'P1DT2.5S'", "d5ae2bd1-0c6b-4a7e-9bd6-6e2e0a3c1f4b"}
    \cup {StringLiteral(v) : v \in StrValues(MaxStrLen)}

CompareTexts ==
    UNION {{"a " \o op \o " " \o lit, lit \o " " \o op \o " a",
            "a in (" \o lit \o ",)", "a in (" \o lit \o ", 1)", "a in (" \o lit \o ")",
            "(" \o lit \o ")"} :
           op \in {"eq", "ne"}, lit \in LiteralTexts}

FunctionNames ==
    {"contains", "startswith", "endswith", "substring", "now", "tolower", "length",
     "concat", "indexof", "year", "hassubset", "matchesPattern", "foo"}

ArgumentTexts ==
    {<<"a", "'o''k'", "1", "2", "3">>, <<"'o''k'", "b", "1", "2", "3">>,
     <<"tolower(a)", "null", "(1, 2)", "b", "c">>}

CallTexts ==
    {f \o "(" \o join(", ", SubSeq(args, 1, n)) \o ")" :
        f \in FunctionNames, args \in ArgumentTexts, n \in 0..MaxArgs}
    \cup {"now ()", "now( )", "tolower(a,)", "tolower( a )", "tolower (a)",
          "length(a) eq 1 and contains(b, 'x')"}

PathNames == <<"a", "b", "c", "d", "e">>

\* PathNames[1]/.../PathNames[n]
RECURSIVE Path(_)
Path(n) == IF n = 1 THEN PathNames[1] ELSE Path(n - 1) \o "/" \o PathNames[n]

LambdaTexts == {"any()", "any(x: x eq 1)", "all(x: x/y eq 'x')", "any( x : x )"}

PathTexts ==
    {Path(n) \o tail :
        n \in 1..MaxPathLen,
        tail \in {"", " eq 1", "/all()", "/any", "/"} \cup {"/" \o l : l \in LambdaTexts}}

\* Texts with a character that no token rule matches, and badly placed
\* whitespace
BrokenTexts ==
    UNION {{SubSeq(t, 1, k) \o junk \o SubSeq(t, k + 1, Len(t)) :
               k \in 0..Len(t), junk \in {"#", "'"}} : t \in {"a eq 1", "'x'"}}
    \cup {"", " a", "a ", "a  eq  1", "a eq", "eq", "<>%&#@"}

\* The keyword operators, and names that start with or contain the letters
\* of one
KeywordWords ==
    {"eq", "ne", "lt", "le", "gt", "ge", "in", "add", "sub", "mul", "div", "mod",
     "and", "or"}

KeywordNames == {"eqVal", "order", "android", "index", "notes", "ORder", "Nothing"}

\* A keyword or "not" with and without a name and whitespace on each side
KeywordTexts ==
    {l \o w \o r : l \in {"", "a", "a "}, w \in KeywordWords \cup {"not"},
                   r \in {"", "b", " b", "Val"}}
    \cup KeywordNames

MaxListLen == 3

\* The elements of the generated lists: a text and the node it parses to
ListElements ==
    {[t |-> "1", n |-> Literal("Integer", "1")],
     [t |-> "'x'", n |-> Literal("String", "x")],
     [t |-> "a", n |-> Identifier("a")]}

ListElementSeqs == UNION {[1..n -> ListElements] : n \in 1..MaxListLen}

\* "(x)", "(x,)" and "(x, y, ...)"
Parenthesized(items) ==
    "(" \o join(", ", [k \in 1..Len(items) |-> items[k].t]) \o ")"

GeneratedListTexts ==
    {Parenthesized(items) : items \in ListElementSeqs}
    \cup {"(" \o e.t \o ",)" : e \in ListElements}

\* Parenthesized expressions and lists, of literals and of other expressions
ListTexts ==
    GeneratedListTexts \cup
    {"(1)", "(1,)", "( 1, )", "(1, 2)", "(1,2,3)", "( 1, 2, 3 )", "(1, 2.0, '3')",
     "((1, 2), (3, 4))", "((1))", "((1),)", "((1,))", "(a)", "(a,)", "(a, b)",
     "a in (b, 1)", "a in (1, b/c)", "a in (b add 1, 2)", "a in (tolower(b), 'x')",
     "a in (1 eq 1, true)", "(1, 2", "(1 2)", "(,)", "()", "(1,,2)", "(1, 2,)"}

\* Duration literals: ones the lexer's pattern matches, and quoted texts
\* after the word duration that it does not match
DurationValues == {"P12DT23H59M59.9S", "-P1D", "P365DT12H1M1.1S", "PT1S", "p1dt1h", "P"}

MalformedDurationValues == {"P1Y", "1D", "PT1.S", "P1DT1S1H", "xyz"}

DurationTexts ==
    {"duration'" \o v \o "'" : v \in DurationValues \cup MalformedDurationValues}

\* Names with namespaces
NamespacedTexts ==
    {"ns.a", "ns1.ns2.meter_id eq 1", "namespace.meter_id eq 1", "geo.distance(a, b)"}

\* Calls of the string functions with a list among their arguments
ListCallTexts ==
    {"contains((1, 2), 1)", "contains((1, 2), 'a')", "startswith((1, 2), 1)",
     "endswith(a, (1, 2))", "indexof((1, 2), 1)", "indexof('a', (1, 2))",
     "substring((1, 2, 3), 1)", "substring((1, 2, 3), 1, 1)"}

\* Names that start with the letters of a reserved word
ReservedPrefixNames ==
    {"anything", "allowed", "trueValue", "falsey", "nullable", "Anyone", "ALLin",
     "_true", "true_"}

\* The alias maps: key, value, key, value, ...
AliasMaps ==
    {<<>>,
     <<"a", "b", "b", "a">>,
     <<"a/b", "c", "c", "x/y">>,
     <<"a", "length(b)">>,
     <<"a eq 1", "b">>,
     <<"length(a)", "b">>}

\* The transformers run on a tree
Transformers ==
    {NodeTransformer}
    \cup {[cls |-> "AliasRewriter", field_aliases |-> m] : m \in AliasMaps}

\* NodeTransformer() and AliasRewriter(field_aliases): the instance, or
\* the exception __init__ raised
Constructed ==
    [t \in Transformers |->
        IF t.cls = "NodeTransformer" THEN Return(NodeTransformer)
        ELSE AliasRewriter(t.field_aliases)]

\* The identifiers stripped off a tree
StripIdentifiers == {Identifier("a"), Identifier("x")}

Texts ==
    FlatTexts \cup GroupedTexts \cup PrefixedTexts \cup CompareTexts \cup CallTexts
    \cup PathTexts \cup BrokenTexts \cup KeywordTexts \cup ListTexts
    \cup BoolTexts \cup DurationTexts \cup NamespacedTexts
    \cup ReservedPrefixNames \cup ListCallTexts

(***************************************************************************)
(* The operations on one filter text                                       *)
(***************************************************************************)
\* A result that has not been computed
Unset == [kind |-> "unset"]

Init ==
    /\ text \in Texts
    /\ pc = "start"
    /\ lexed = Unset
    /\ tree = Unset
    /\ printed = Unset
    /\ tree2 = Unset
    /\ dialect = "none"
    /\ sql = Unset
    /\ input = Unset
    /\ transformer = Unset
    /\ rewritten = Unset
    /\ strip_id = Unset
    /\ stripped = Unset
    /\ _depth = 0
    /\ django_q = Unset

\* list(ODataLexer().tokenize(text))
Tokenize ==
    /\ pc = "start"
    /\ lexed' = tokenize(text)
    /\ pc' = "lexed"
    /\ UNCHANGED <<text, tree, printed, tree2, dialect, sql,
                   input, transformer, rewritten, strip_id, stripped,
                   _depth, django_q>>

\* ODataParser().parse(ODataLexer().tokenize(text))
Parse ==
    /\ pc = "lexed"
    /\ tree' = parse(lexed)
    /\ pc' = IF tree'.ok THEN "parsed" ELSE "failed"
    /\ input' = IF tree'.ok THEN tree'.node ELSE Unset
    /\ UNCHANGED <<text, lexed, printed, tree2, dialect, sql,
                   transformer, rewritten, strip_id, stripped,
                   _depth, django_q>>

\* AstToODataVisitor().visit(tree)
Render ==
    /\ pc = "parsed"
    /\ printed = Unset
    /\ dialect = "none"
    /\ printed' = AstToODataVisitor(tree.node)
    /\ UNCHANGED <<text, pc, lexed, tree, tree2, dialect, sql,
                   input, transformer, rewritten, strip_id, stripped,
                   _depth, django_q>>

\* The printed text parsed again
Reparse ==
    /\ pc = "parsed"
    /\ printed # Unset
    /\ printed.ok
    /\ tree2 = Unset
    /\ tree2' = parse(tokenize(printed.val))
    /\ UNCHANGED <<text, pc, lexed, tree, printed, dialect, sql,
                   input, transformer, rewritten, strip_id, stripped,
                   _depth, django_q>>

\* The visitor of dialect d run on the tree
Compile(d) ==
    /\ pc = "parsed"
    /\ dialect = "none"
    /\ printed = Unset
    /\ dialect' = d
    /\ sql' = sql_visit(d, tree.node)
    /\ UNCHANGED <<text, pc, lexed, tree, printed, tree2,
                   input, transformer, rewritten, strip_id, stripped,
                   _depth, django_q>>

\* t().visit(input) for the transformer class and arguments t
Rewrite(t) ==
    /\ pc \in {"parsed", "rewriting"}
    /\ printed = Unset
    /\ dialect = "none"
    /\ transformer = Unset
    /\ transformer' = t
    /\ rewritten' =
          Then(Constructed[t], LAMBDA self :
              [ok |-> TRUE, node |-> NodeTransformer_visit(self.val, input)])
    /\ pc' = "rewriting"
    /\ UNCHANGED <<text, lexed, tree, printed, tree2, dialect, sql,
                   input, strip_id, stripped,
                   _depth, django_q>>

\* utils.expression_relative_to_identifier(id, input)
Strip(id) ==
    /\ pc \in {"parsed", "rewriting"}
    /\ printed = Unset
    /\ dialect = "none"
    /\ strip_id = Unset
    /\ strip_id' = id
    /\ stripped' = expression_relative_to_identifier(id, input)
    /\ input' = stripped'.obj
    /\ pc' = "rewriting"
    /\ UNCHANGED <<text, lexed, tree, printed, tree2, dialect, sql,
                   transformer, rewritten,
                   _depth, django_q>>

\* AstToDjangoQVisitor(root_model).visit(tree)
Filter ==
    /\ pc = "parsed"
    /\ printed = Unset
    /\ dialect = "none"
    /\ django_q = Unset
    /\ django_q' = AstToDjangoQVisitor_visit(tree.node, _depth)
    /\ _depth' = django_q'.depth
    /\ pc' = "filtered"
    /\ UNCHANGED <<text, lexed, tree, printed, tree2, dialect, sql,
                   input, transformer, rewritten, strip_id, stripped>>

Next ==
    \/ Tokenize
    \/ Parse
    \/ Render
    \/ Reparse
    \/ \E d \in Dialects : Compile(d)
    \/ \E t \in Transformers : Rewrite(t)
    \/ \E id \in StripIdentifiers : Strip(id)
    \/ Filter

Spec == Init /\ [][Next]_vars

(***************************************************************************)
(* Properties                                                              *)
(***************************************************************************)
\* The nodes of a tree
RECURSIVE Nodes(_)
Nodes(node) ==
    {node} \cup UNION {Nodes(ChildNodes(node)[k]) : k \in 1..Len(ChildNodes(node))}

Parsed == pc = "parsed"
ParseDone == pc \in {"parsed", "failed"}

\* s has sub as a substring
Contains(s, sub) ==
    \E k \in 1..(Len(s) - Len(sub) + 1) : SubSeq(s, k, k + Len(sub) - 1) = sub

----------------------------------------------------------------------------
\* The precedence table as the specification states it, lowest first
C1_Level(type) ==
    CASE type = "OR" -> 1
      [] type = "AND" -> 2
      [] type \in {"EQ", "NE"} -> 3
      [] type \in {"GT", "GE", "LT", "LE"} -> 4
      [] type \in {"ADD", "SUB"} -> 5
      [] type \in {"MUL", "DIV", "MOD"} -> 6
      [] type \in {"NOT", "UMINUS"} -> 7
      [] type = "IN" -> 8

\* The tokens of an un-parenthesized expression as operands and operators;
\* the parenthesized list after "in" is one operand
RECURSIVE C1_Items(_, _)
C1_Items(toks, k) ==
    IF k > Len(toks) THEN <<>>
    ELSE LET t == toks[k]
         IN CASE t.type = "WS" -> C1_Items(toks, k + 1)
              [] t.type \in {"NOT", "UMINUS"} ->
                    <<[t |-> "prefix", tok |-> t]>> \o C1_Items(toks, k + 1)
              [] t.type \in BinaryTokens ->
                    <<[t |-> "binary", tok |-> t]>> \o C1_Items(toks, k + 1)
              [] t.type = "(" ->
                    LET close == CHOOSE j \in (k + 1)..Len(toks) :
                                     /\ toks[j].type = ")"
                                     /\ \A i \in (k + 1)..(j - 1) : toks[i].type # ")"
                        inner == SelectSeq(SubSeq(toks, k + 1, close - 1),
                                           LAMBDA x : x.type \notin {"WS", ","})
                    IN <<[t |-> "operand",
                          node |-> List([i \in 1..Len(inner) |-> inner[i].value])]>>
                       \o C1_Items(toks, close + 1)
              [] OTHER -> <<[t |-> "operand", node |-> t.value]>>
                          \o C1_Items(toks, k + 1)

\* Un-parenthesized: operands are literals and names, and a parenthesis
\* opens only the list of an "in"
C1_Unparenthesized(toks) ==
    /\ \A k \in 1..Len(toks) :
          /\ toks[k].type \in PrimitiveTokens \cup BinaryTokens
                             \cup {"NOT", "UMINUS", "ODATA_IDENTIFIER", "WS", "(", ")", ","}
          /\ toks[k].type = "(" => k > 1 /\ toks[k - 1].type = "IN"
          /\ toks[k].type = "," => /\ k > 1 /\ k < Len(toks)
                                   /\ toks[k - 1].type \in PrimitiveTokens
          /\ toks[k].type \in BinaryTokens \cup {"NOT", "UMINUS"} =>
                ~\E j \in 1..(k - 1) :
                    /\ toks[j].type = "("
                    /\ \A i \in j..k : toks[i].type # ")"
    /\ \E k \in 1..Len(toks) : toks[k].type \in BinaryTokens \cup {"NOT", "UMINUS"}

\* The grouping the table prescribes: the operator that binds least is the
\* root, the rightmost one among binary operators of the same level
RECURSIVE C1_Grouping(_)
C1_Grouping(items) ==
    IF Len(items) = 1 THEN items[1].node
    ELSE LET ops == {k \in 1..Len(items) : items[k].t # "operand"}
             low == CHOOSE l \in 1..8 :
                        /\ \E k \in ops : C1_Level(items[k].tok.type) = l
                        /\ \A k \in ops : C1_Level(items[k].tok.type) >= l
             bin == {k \in ops : items[k].t = "binary"
                                 /\ C1_Level(items[k].tok.type) = low}
             k == CHOOSE j \in bin : \A i \in bin : i <= j
             op == items[k].tok
             left == C1_Grouping(SubSeq(items, 1, k - 1))
             right == C1_Grouping(SubSeq(items, k + 1, Len(items)))
         IN IF bin = {} THEN UnaryOp(items[1].tok.value, C1_Grouping(Tail(items)))
            ELSE IF op.type \in ArithTokens THEN BinOp(op.value, left, right)
            ELSE IF op.type \in BoolTokens THEN BoolOp(op.value, left, right)
            ELSE Compare(op.value, left, right)

C1_Int(n) == Literal("Integer", n)

\* C1: an un-parenthesized expression that parses is grouped by the
\* precedence table OR < AND < {eq, ne} < {gt, ge, lt, le} < {add, sub} <
\* {mul, div, mod} < {not, unary minus} < in, binary operators of one level
\* to the left; "1 add 2 mul 3", "a and b or c" and "1 add 2 add 3" parse to
\* the trees the specification gives.
C1_PrecedenceGrouping ==
    /\ (Parsed /\ C1_Unparenthesized(lexed.toks))
          => tree.node = C1_Grouping(C1_Items(lexed.toks, 1))
    /\ (ParseDone /\ text = "1 add 2 mul 3")
          => /\ tree.ok
             /\ tree.node = BinOp(OpNode("Add"), C1_Int("1"),
                                  BinOp(OpNode("Mult"), C1_Int("2"), C1_Int("3")))
    /\ (ParseDone /\ text = "a and b or c")
          => /\ tree.ok
             /\ tree.node = BoolOp(OpNode("Or"),
                                   BoolOp(OpNode("And"), Identifier("a"), Identifier("b")),
                                   Identifier("c"))
    /\ (ParseDone /\ text = "1 add 2 add 3")
          => /\ tree.ok
             /\ tree.node = BinOp(OpNode("Add"),
                                  BinOp(OpNode("Add"), C1_Int("1"), C1_Int("2")),
                                  C1_Int("3"))

\* A parsed chain whose second operator binds tighter than its first, so
\* that it is grouped against the reading order
C1_Witness ==
    /\ Parsed
    /\ C1_Unparenthesized(lexed.toks)
    /\ tree.node.kind = "BoolOp"
    /\ tree.node.op.kind = "Or"
    /\ tree.node.left.kind = "Identifier"
    /\ tree.node.right.kind = "Compare"

----------------------------------------------------------------------------
\* The level, in the table of C1, of an operator written as a word
WordLevel(word) == C1_Level(upper(word))

\* Texts in canonical form: single spaces around operators, ", " between
\* list items, and parentheses only around an operand that would group
\* otherwise (a right operand of the same or a lower level, a left operand
\* of a lower level)
C2_Canonical ==
    FlatTexts
    \cup {"a " \o o[1] \o " (b " \o o[2] \o " c)" :
             o \in {p \in BinaryWords \X BinaryWords : WordLevel(p[2]) <= WordLevel(p[1])}}
    \cup {"(a " \o o[1] \o " b) " \o o[2] \o " c" :
             o \in {p \in BinaryWords \X BinaryWords : WordLevel(p[1]) < WordLevel(p[2])}}
    \cup {"a " \o op \o " " \o lit : op \in {"eq", "ne"}, lit \in LiteralTexts}
    \cup {"a in (" \o lit \o ", 1)" : lit \in LiteralTexts}

\* C2: the round-trip printer returns a canonical text from its parse:
\* print(parse(S)) = S.
C2_PrintOfParse ==
    (Parsed /\ text \in C2_Canonical /\ printed # Unset) => printed = Return(text)

\* C3: the text printed from a parse parses to the same tree:
\* parse(print(parse(S))) = parse(S) for every valid S.
C3_ParseOfPrint ==
    (Parsed /\ tree2 # Unset) => tree2 = tree

----------------------------------------------------------------------------
C4_Atoms == PrimitiveTokens \cup {"ODATA_IDENTIFIER"}

\* The tokens of f(a1, ..., an) with literals and names for arguments
C4_SimpleCall(toks) ==
    /\ Len(toks) >= 3
    /\ toks[1].type = "ODATA_IDENTIFIER"
    /\ toks[2].type = "("
    /\ toks[Len(toks)].type = ")"
    /\ \A k \in 3..(Len(toks) - 1) :
          \/ /\ toks[k].type \in C4_Atoms
             /\ toks[k - 1].type \in {"(", "WS"}
             /\ toks[k + 1].type \in {",", ")"}
          \/ /\ toks[k].type = ","
             /\ toks[k - 1].type \in C4_Atoms
             /\ toks[k + 1].type \in C4_Atoms \cup {"WS"}
          \/ /\ toks[k].type = "WS"
             /\ toks[k - 1].type = ","
             /\ toks[k + 1].type \in C4_Atoms

C4_Arguments(toks) ==
    LET atoms == SelectSeq(SubSeq(toks, 3, Len(toks) - 1),
                           LAMBDA x : x.type \in C4_Atoms)
    IN [k \in 1..Len(atoms) |-> atoms[k].value]

\* What the specification prescribes for the call f(args)
C4_Outcome(f, args) ==
    IF f \notin DOMAIN ODATA_FUNCTIONS THEN Raise(UnknownFunctionException(f))
    ELSE IF Len(args) < ODATA_FUNCTIONS[f].min \/ Len(args) > ODATA_FUNCTIONS[f].max
    THEN Raise(ArgumentCountException(f, ODATA_FUNCTIONS[f].min, ODATA_FUNCTIONS[f].max,
                                      Len(args)))
    ELSE [ok |-> TRUE, node |-> Call(Identifier(f), args)]

\* C4: a call of an unregistered function fails the parse with
\* UnknownFunctionException naming it, a call with an argument count off the
\* registered arity or range fails it with ArgumentCountException carrying
\* the name, the minimum, the maximum and the count, and any other call
\* becomes a Call node; no parsed tree holds a Call that is unregistered or
\* has an illegal count, and after a failed parse no visitor has run.
C4_CallsValidated ==
    /\ (ParseDone /\ lexed.err = None /\ C4_SimpleCall(lexed.toks))
          => tree = C4_Outcome(lexed.toks[1].value.name, C4_Arguments(lexed.toks))
    /\ Parsed =>
          \A n \in Nodes(tree.node) :
              n.kind = "Call" =>
                  /\ n.func.name \in DOMAIN ODATA_FUNCTIONS
                  /\ Len(n.args) >= ODATA_FUNCTIONS[n.func.name].min
                  /\ Len(n.args) <= ODATA_FUNCTIONS[n.func.name].max
    /\ pc = "failed" => printed = Unset /\ tree2 = Unset /\ sql = Unset

\* A parse failed by a registered function called with too many arguments
C4_Witness ==
    /\ pc = "failed"
    /\ C4_SimpleCall(lexed.toks)
    /\ tree.exc.type = "ArgumentCountException"
    /\ tree.exc.n_args_given > tree.exc.exp_max_args

----------------------------------------------------------------------------
\* The SQL text a visitor returned
SqlText == sql # Unset /\ sql.ok /\ sql.val.kind = "str"

\* C5: no SQL output applies = or != to NULL; a comparison with the Null
\* literal compiles to IS NULL or IS NOT NULL, in every dialect.
C5_NullComparison ==
    (Parsed /\ SqlText) =>
        /\ ~Contains(sql.val.s, "= NULL")
        /\ ~Contains(sql.val.s, "NULL =")
        /\ ~Contains(sql.val.s, "NULL !=")

\* The string constants of a SQL text, decoded: a quote opens a constant,
\* two quotes inside it stand for one, a single quote closes it
RECURSIVE C6_Constants(_, _, _, _)
C6_Constants(s, i, inside, cur) ==
    IF i > Len(s) THEN [ok |-> ~inside, vals |-> <<>>]
    ELSE IF ~inside THEN C6_Constants(s, i + 1, Ch(s, i) = "'", "")
    ELSE IF Ch(s, i) # "'" THEN C6_Constants(s, i + 1, TRUE, cur \o Ch(s, i))
    ELSE IF i < Len(s) /\ Ch(s, i + 1) = "'" THEN C6_Constants(s, i + 2, TRUE, cur \o "'")
    ELSE LET rest == C6_Constants(s, i + 1, FALSE, "")
         IN [ok |-> rest.ok, vals |-> <<cur>> \o rest.vals]

\* C6: every String value emitted into SQL stands inside a string constant
\* with its quotes doubled: the constants of the text are closed where the
\* visitor closed them, and each value (with % and _ doubled in a LIKE
\* pattern) is part of a constant.
C6_StringsQuoted ==
    (Parsed /\ SqlText /\ \A n \in Nodes(tree.node) : n.kind # "CollectionLambda") =>
        LET c == C6_Constants(sql.val.s, 1, FALSE, "")
        IN /\ c.ok
           /\ \A n \in Nodes(tree.node) :
                 (n.kind = "String" /\ n.val # "") =>
                     \E k \in 1..Len(c.vals) :
                         \/ Contains(c.vals[k], n.val)
                         \/ Contains(c.vals[k],
                                     replace(replace(n.val, "%", "%%"), "_", "__"))

----------------------------------------------------------------------------
\* Attribute(...Attribute(Identifier(p1), p2)..., pn) over PathNames
RECURSIVE PathChain(_)
PathChain(n) ==
    IF n = 1 THEN Identifier(PathNames[1])
    ELSE Attribute(PathChain(n - 1), PyStr(PathNames[n]))

\* C7: a path p1/.../pn, n >= 2, parses to the left-nested chain of
\* Attributes; in every parsed tree the owner of an Attribute is an
\* Identifier or an Attribute and its attr is a plain string.
C7_AttributesLeftNested ==
    /\ \A n \in 2..MaxPathLen :
          (ParseDone /\ text = Path(n)) => tree = [ok |-> TRUE, node |-> PathChain(n)]
    /\ Parsed =>
          \A x \in Nodes(tree.node) :
              x.kind = "Attribute" =>
                  /\ x.owner.kind \in {"Identifier", "Attribute"}
                  /\ x.attr.kind = "str"

\* A parsed path of three segments or more
C7_Witness ==
    /\ Parsed
    /\ \E n \in 3..MaxPathLen : text = Path(n)
    /\ tree.node.kind = "Attribute"
    /\ tree.node.owner.kind = "Attribute"

\* C8: p1/.../pn/any(...) and p1/.../pn/all(...) parse, for every n >= 1, to
\* a CollectionLambda whose owner is the whole prefix path.
C8_LambdaOwnsPrefix ==
    \A n \in 1..MaxPathLen, l \in LambdaTexts :
        (ParseDone /\ text = Path(n) \o "/" \o l) =>
            /\ tree.ok
            /\ tree.node.kind = "CollectionLambda"
            /\ tree.node.owner = PathChain(n)

----------------------------------------------------------------------------
\* C9: every failure of tokenizing, parsing, printing and SQL compilation
\* is an exception of a class derived from ODataException.
C9_FailuresTyped ==
    /\ (pc # "start" /\ lexed.err # None) => lexed.err.type \in ODataExceptionTypes
    /\ pc = "failed" => tree.exc.type \in ODataExceptionTypes
    /\ (printed # Unset /\ ~printed.ok) => printed.exc.type \in ODataExceptionTypes
    /\ (tree2 # Unset /\ ~tree2.ok) => tree2.exc.type \in ODataExceptionTypes
    /\ (sql # Unset /\ ~sql.ok) => sql.exc.type \in ODataExceptionTypes

\* C10: tokenizing a text with a character sequence that matches no token
\* rule raises TokenizingException carrying the fragment.
C10_TokenizingException ==
    (pc # "start" /\ lexed.err # None) =>
        /\ lexed.err.type = "TokenizingException"
        /\ Contains(text, lexed.err.token)

----------------------------------------------------------------------------
\* The tokens the specification prescribes for l \o w \o r of KeywordTexts:
\* the operator when w is a keyword with whitespace on both sides or "not"
\* at the start of a word with whitespace after it, and otherwise one
\* identifier for each run of letters, with the whitespace between them
C11_Tokens(l, w, r) ==
    LET id(name) == Token("ODATA_IDENTIFIER", Identifier(name))
        ws == Token("WS", PyStr(" "))
        op == Token(upper(w), OpNode(OpOfToken(upper(w))))
    IN IF w # "not" /\ l = "a " /\ r = " b" THEN <<id("a"), op, id("b")>>
       ELSE IF w = "not" /\ l # "a" /\ r = " b"
       THEN (IF l = "a " THEN <<id("a"), ws>> ELSE <<>>) \o <<op, id("b")>>
       ELSE (IF l = "a " THEN <<id("a"), ws>> ELSE <<>>)
            \o <<id((IF l = "a" THEN "a" ELSE "") \o w
                    \o (IF r \in {"b", "Val"} THEN r ELSE ""))>>
            \o (IF r = " b" THEN <<ws, id("b")>> ELSE <<>>)

\* C11: a keyword operator is a token only with whitespace on both sides,
\* which the token takes in, and "not" only with whitespace after it; a name
\* that starts with or contains the letters of an operator is one identifier
\* token.
C11_KeywordsNeedWhitespace ==
    pc # "start" =>
        /\ \A l \in {"", "a", "a "}, w \in KeywordWords \cup {"not"},
              r \in {"", "b", " b", "Val"} :
              text = l \o w \o r =>
                  lexed = [toks |-> C11_Tokens(l, w, r), err |-> None]
        /\ text \in KeywordNames =>
              lexed = [toks |-> <<Token("ODATA_IDENTIFIER", Identifier(text))>>,
                       err |-> None]

\* A name that starts with the letters of an operator, tokenized
C11_Witness ==
    /\ pc # "start"
    /\ text = "android"
    /\ Len(lexed.toks) = 1

----------------------------------------------------------------------------
\* C12: every List node of a parsed tree holds literal nodes only; a
\* parenthesized sequence with an element that is no literal is rejected.
C12_ListOfLiterals ==
    Parsed =>
        \A n \in Nodes(tree.node) :
            n.kind = "List" => \A k \in 1..Len(n.val) : n.val[k].kind \in LiteralKinds

----------------------------------------------------------------------------
\* C13: "(x)" parses to x itself, "(x,)" to the List of x alone, and
\* "(x, y, ...)" to the List of the elements in the order of the text.
C13_ListNeedsComma ==
    ParseDone =>
        /\ \A e \in ListElements :
              /\ text = "(" \o e.t \o ")" => tree = [ok |-> TRUE, node |-> e.n]
              /\ text = "(" \o e.t \o ",)" => tree = [ok |-> TRUE, node |-> List(<<e.n>>)]
        /\ \A items \in ListElementSeqs :
              (Len(items) >= 2 /\ text = Parenthesized(items)) =>
                  tree = [ok |-> TRUE,
                          node |-> List([k \in 1..Len(items) |-> items[k].n])]

\* A single parenthesized literal parsed, and not to a List
C13_Witness ==
    /\ Parsed
    /\ text = "(1)"
    /\ tree.node.kind = "Integer"

----------------------------------------------------------------------------
\* The SQL keyword of "and" and of "or"
C14_Keyword(word) == IF word = "and" THEN "AND" ELSE "OR"

\* 'x o y' in SQL, in parentheses when wrapped
C14_Pair(x, word, y, wrapped) ==
    LET inner == "\"" \o x \o "\" " \o C14_Keyword(word) \o " \"" \o y \o "\""
    IN IF wrapped THEN "(" \o inner \o ")" ELSE inner

\* C14: in the SQL output an and/or expression that is an operand of an
\* and/or expression stands in parentheses exactly when its operator is not
\* the operator of the expression it is an operand of.
C14_BoolOpParentheses ==
    (Parsed /\ SqlText) =>
        /\ \A o \in BoolWords \X BoolWords \X BoolWords :
              text = "(a " \o o[1] \o " b) " \o o[2] \o " (c " \o o[3] \o " d)" =>
                  sql.val.s = C14_Pair("a", o[1], "b", o[1] # o[2]) \o " "
                              \o C14_Keyword(o[2]) \o " "
                              \o C14_Pair("c", o[3], "d", o[3] # o[2])
        /\ \A o \in BoolWords \X BoolWords :
              /\ text = "(a " \o o[1] \o " b) " \o o[2] \o " c" =>
                    sql.val.s = C14_Pair("a", o[1], "b", o[1] # o[2]) \o " "
                                \o C14_Keyword(o[2]) \o " \"c\""
              /\ text = "a " \o o[1] \o " (b " \o o[2] \o " c)" =>
                    sql.val.s = "\"a\" " \o C14_Keyword(o[1]) \o " "
                                \o C14_Pair("b", o[2], "c", o[1] # o[2])
        /\ text = "a and b and c" => sql.val.s = "\"a\" AND \"b\" AND \"c\""
        /\ text = "a or b and c" => sql.val.s = "\"a\" OR (\"b\" AND \"c\")"
        /\ text = "a and (b or c) and d" =>
              sql.val.s = "\"a\" AND (\"b\" OR \"c\") AND \"d\""

\* (a AND b) OR (c AND d) was emitted
C14_Witness ==
    /\ Parsed
    /\ SqlText
    /\ text = "(a and b) or (c and d)"
    /\ sql.val.s = "(\"a\" AND \"b\") OR (\"c\" AND \"d\")"

----------------------------------------------------------------------------
\* A comparison, an and/or expression or a not-expression
C15_Compound(node) ==
    \/ node.kind \in {"Compare", "BoolOp"}
    \/ node.kind = "UnaryOp" /\ node.op.kind = "Not"

\* C15: in the SQL output every operand of a comparison that is a
\* comparison, an and/or expression or a not-expression stands in
\* parentheses.
C15_CompareOperandsWrapped ==
    (Parsed /\ SqlText) =>
        \A n \in Nodes(tree.node) :
            n.kind = "Compare" =>
                \A operand \in {n.left, n.right} :
                    C15_Compound(operand) =>
                        Contains(sql.val.s,
                                 "(" \o format(sql_visit(dialect, operand).val) \o ")")

----------------------------------------------------------------------------
\* C16: a SQL compilation that raises nothing returns a SQL text in which
\* every sub-expression was translated: the result is a string, and no part
\* of it is the text None standing for a node no handler translated.
C16_AllOrNothing ==
    (Parsed /\ sql # Unset /\ sql.ok) =>
        /\ sql.val.kind = "str"
        /\ ~Contains(sql.val.s, "None")

----------------------------------------------------------------------------
\* The parses of the keys and of the values of an alias map
C17_Parsed ==
    [m \in AliasMaps |->
        [k \in 1..(Len(m) \div 2) |->
            [key |-> parse(tokenize(m[2 * k - 1])).node,
             value |-> parse(tokenize(m[2 * k])).node]]]

\* A tree with every sub-tree that equals a key replaced by the value of
\* the key: a replaced sub-tree is not entered, the value is left as it is
RECURSIVE C17_Substitute(_, _)
C17_Substitute(pairs, node) ==
    IF \E k \in 1..Len(pairs) : pairs[k].key = node
    THEN pairs[CHOOSE k \in 1..Len(pairs) : pairs[k].key = node].value
    ELSE [f \in DOMAIN node |->
             IF f = "kind" THEN node.kind
             ELSE IF IsListField(node, f)
             THEN [k \in 1..Len(node[f]) |-> C17_Substitute(pairs, node[f][k])]
             ELSE IF IsNodeField(node, f) THEN C17_Substitute(pairs, node[f])
             ELSE node[f]]

\* C17: AliasRewriter(M).visit(T) returns T with every sub-tree that equals
\* the parse of a key of M replaced by the parse of the value of that key;
\* a replaced sub-tree is not entered and the value put in is not rewritten.
C17_AliasesReplaced ==
    (rewritten # Unset /\ transformer.cls = "AliasRewriter") =>
        rewritten = [ok |-> TRUE,
                     node |-> C17_Substitute(C17_Parsed[transformer.field_aliases],
                                             tree.node)]

----------------------------------------------------------------------------
\* C18: a transformer that replaces nothing returns a tree equal to the
\* tree it was run on: NodeTransformer().visit(T) = T and
\* AliasRewriter({}).visit(T) = T, lists of nodes included.
C18_IdentityTransformer ==
    /\ (rewritten # Unset /\ transformer = NodeTransformer) =>
          rewritten = [ok |-> TRUE, node |-> tree.node]
    /\ (rewritten # Unset /\ transformer = [cls |-> "AliasRewriter", field_aliases |-> <<>>]) =>
          rewritten = [ok |-> TRUE, node |-> tree.node]

\* A tree with a Call that has arguments went through NodeTransformer
C18_Witness ==
    /\ rewritten # Unset
    /\ transformer = NodeTransformer
    /\ text = "length(a) eq 1 and contains(b, 'x')"
    /\ rewritten.ok
    /\ \E n \in Nodes(rewritten.node) : n.kind = "Call" /\ Len(n.args) = 2

----------------------------------------------------------------------------
\* An expression with the leading identifier id taken off every Attribute
\* chain that starts with it, every other node as it is
RECURSIVE C19_Relative(_, _)
C19_Relative(id, node) ==
    IF node.kind = "Attribute" /\ node.owner = id /\ node.attr.kind = "str"
    THEN Identifier(node.attr.s)
    ELSE [f \in DOMAIN node |->
             IF f = "kind" THEN node.kind
             ELSE IF IsListField(node, f)
             THEN [k \in 1..Len(node[f]) |-> C19_Relative(id, node[f][k])]
             ELSE IF IsNodeField(node, f) THEN C19_Relative(id, node[f])
             ELSE node[f]]

\* C19: expression_relative_to_identifier(id, E) raises nothing and returns
\* E with the leading id taken off every Attribute chain that starts with
\* id, at any depth and inside any node, every other node unchanged.
C19_RelativeToIdentifier ==
    stripped # Unset =>
        /\ stripped.ok
        /\ stripped.node = C19_Relative(strip_id, tree.node)

----------------------------------------------------------------------------
\* C20: no rewrite changes the tree it is run on: after any transformer or
\* the identifier stripping, the tree equals what it was, so a rewrite run
\* after another returns what it returns when run first.
C20_InputUnchanged ==
    pc = "rewriting" =>
        /\ input = tree.node
        /\ rewritten # Unset =>
              rewritten = Then(Constructed[transformer], LAMBDA self :
                              [ok |-> TRUE,
                               node |-> NodeTransformer_visit(self.val, tree.node)])
        /\ stripped # Unset =>
              /\ stripped.ok =
                    expression_relative_to_identifier(strip_id, tree.node).ok
              /\ stripped.ok =>
                    stripped.node =
                        expression_relative_to_identifier(strip_id, tree.node).node

\* A rewrite and a stripping that both returned a tree other than the one
\* they were run on
C20_Witness ==
    /\ pc = "rewriting"
    /\ rewritten # Unset
    /\ stripped # Unset
    /\ rewritten.ok
    /\ stripped.ok
    /\ rewritten.node # tree.node
    /\ stripped.node # tree.node
    /\ input = tree.node

----------------------------------------------------------------------------
\* C21: every node the parser returns can be hashed, Call and List nodes
\* included, so that an AliasRewriter can be built with any parsed
\* expression as a key.
C21_NodesHashable ==
    /\ Parsed => \A n \in Nodes(tree.node) : hashable(n)
    /\ (rewritten # Unset /\ transformer.cls = "AliasRewriter") => rewritten.ok

----------------------------------------------------------------------------
\* C22: unpack() of a well-formed Duration returns the five values sign,
\* days, hours, minutes and seconds, each without its unit letter and None
\* when absent: (None, "12", "23", "59", "59.9") for P12DT23H59M59.9S, and
\* the sign "-" for -P1D.
C22_DurationUnpack ==
    Parsed =>
        /\ \A n \in Nodes(tree.node) :
              n.kind = "Duration" => unpack(n).ok /\ Len(unpack(n).val) = 5
        /\ text = "duration'P12DT23H59M59.9S'" =>
              unpack(tree.node) = Return(<<None, PyStr("12"), PyStr("23"),
                                           PyStr("59"), PyStr("59.9")>>)
        /\ text = "duration'-P1D'" => unpack(tree.node).val[1] = PyStr("-")

\* C23: a duration literal whose quoted text does not match the duration
\* pattern is accepted by the lexer and the parser and gives a Duration node
\* that holds the text; only unpack() of that node raises.
C23_DurationLazy ==
    ParseDone =>
        \A v \in MalformedDurationValues :
            text = "duration'" \o v \o "'" =>
                /\ tree.ok
                /\ tree.node = Literal("Duration", upper(v))
                /\ ~unpack(tree.node).ok

----------------------------------------------------------------------------
\* C25: the Athena visitor renders every Duration the lexer accepts as the
\* sign and the INTERVAL terms DAY, HOUR, MINUTE, SECOND and MILLISECOND, one
\* term bare and several joined with " + " in parentheses.
C25_AthenaDuration ==
    (Parsed /\ dialect = "athena") =>
        /\ text \in {"duration'" \o v \o "'" : v \in DurationValues \ {"P"}} =>
              /\ SqlText
              /\ Contains(sql.val.s, "INTERVAL '")
        /\ text = "duration'P365DT12H1M1.1S'" =>
              sql = ReturnStr("(INTERVAL '365' DAY + INTERVAL '12' HOUR + "
                              \o "INTERVAL '1' MINUTE + INTERVAL '1' SECOND + "
                              \o "INTERVAL '100' MILLISECOND)")
        /\ text = "duration'-P1D'" => sql = ReturnStr("-INTERVAL '1' DAY")

----------------------------------------------------------------------------
\* An Identifier with a namespace
C24_Identifier(name, namespace) ==
    [kind |-> "Identifier", name |-> name, namespace |-> namespace]

\* C24: a dotted name parses to one Identifier whose name is the last
\* segment and whose namespace holds the segments before it, in order; the
\* same holds for the name of a function.
C24_Namespaces ==
    ParseDone =>
        /\ text = "ns.a" => tree = [ok |-> TRUE, node |-> C24_Identifier("a", <<"ns">>)]
        /\ text = "ns1.ns2.meter_id eq 1" =>
              tree = [ok |-> TRUE,
                      node |-> Compare(OpNode("Eq"),
                                       C24_Identifier("meter_id", <<"ns1", "ns2">>),
                                       Literal("Integer", "1"))]
        /\ text = "namespace.meter_id eq 1" =>
              tree = [ok |-> TRUE,
                      node |-> Compare(OpNode("Eq"),
                                       C24_Identifier("meter_id", <<"namespace">>),
                                       Literal("Integer", "1"))]
        /\ text = "geo.distance(a, b)" =>
              tree = [ok |-> TRUE,
                      node |-> Call(C24_Identifier("distance", <<"geo">>),
                                    <<Identifier("a"), Identifier("b")>>)]

----------------------------------------------------------------------------
\* The arithmetic words of the generated texts, their SQL operators and
\* their SQL precedence
C27_Words == {"add", "sub", "mul"}
C27_Sql(word) == CASE word = "add" -> "+" [] word = "sub" -> "-" [] word = "mul" -> "*"
C27_Level(word) == IF word = "mul" THEN 2 ELSE 1

\* C27: the SQL text of an arithmetic tree groups the operands as the tree
\* does: a left operand of lower precedence, and a right operand of lower or
\* equal precedence, is emitted in parentheses.
C27_ArithmeticGrouping ==
    (Parsed /\ SqlText) =>
        \A o \in C27_Words \X C27_Words :
            /\ (text = "(a " \o o[1] \o " b) " \o o[2] \o " c"
                  /\ C27_Level(o[1]) < C27_Level(o[2])) =>
                  sql.val.s = "(\"a\" " \o C27_Sql(o[1]) \o " \"b\") "
                              \o C27_Sql(o[2]) \o " \"c\""
            /\ (text = "a " \o o[1] \o " (b " \o o[2] \o " c)"
                  /\ C27_Level(o[2]) <= C27_Level(o[1])) =>
                  sql.val.s = "\"a\" " \o C27_Sql(o[1]) \o " (\"b\" "
                              \o C27_Sql(o[2]) \o " \"c\")"

----------------------------------------------------------------------------
\* C28: a name that matches the identifier pattern and is no reserved word
\* is one identifier token, also when it starts with the letters of any,
\* all, true, false or null.
C28_ReservedPrefixes ==
    (pc # "start" /\ text \in ReservedPrefixNames) =>
        lexed = [toks |-> <<Token("ODATA_IDENTIFIER", Identifier(text))>>,
                 err |-> None]

----------------------------------------------------------------------------
\* A call of contains, startswith, endswith, indexof or substring with an
\* argument whose inferred type is List
C29_ListOperand(node) ==
    /\ node.kind = "Call"
    /\ lower(node.func.name) \in
           {"contains", "startswith", "endswith", "indexof", "substring"}
    /\ \E k \in 1..Len(node.args) : infer_type(node.args[k]) = "List"

\* C29: every SQL visitor raises UnsupportedFunctionException for contains,
\* startswith, endswith, indexof and substring on a list operand, and
\* emits no SQL text for it.
C29_ListOperandUnsupported ==
    (Parsed /\ sql # Unset /\ tree.ok /\ C29_ListOperand(tree.node)) =>
        /\ ~sql.ok
        /\ sql.exc.type = "UnsupportedFunctionException"

----------------------------------------------------------------------------
\* C30: the depth counter of the Django visitor is 0 before and after every
\* top-level call of visit, also after one that ended in an exception, and
\* a top-level call that returns gives a Q or an Exists.
C30_DepthRestored ==
    /\ _depth = 0
    /\ (django_q # Unset /\ django_q.ok) => django_q.val.cls \in {"Q", "Exists"}

====
